---- MODULE Spec2Model ----
(***************************************************************************)
(* A model of the authentication and credential-lifecycle core of the      *)
(* content server: the users and otps tables, the Sequelize transactions   *)
(* the workflows open, and the workflows of auth.service.ts and            *)
(* admin/user.service.ts, one action per awaited database call.            *)
(*                                                                         *)
(* Time is the wall clock in milliseconds.  A request is a slot of req;    *)
(* a slot whose pc is "done" is free to start the next one, and last holds *)
(* the response most recently delivered.  Writes made under a transaction  *)
(* are held in the slot (lock, pendVerified, pendPassword, pendRow) and   *)
(* reach the tables at commit; a statement run without the transaction     *)
(* option is committed by itself.                                          *)
(***************************************************************************)
EXTENDS Integers, Sequences, FiniteSets, TLC

(* ------------------------------ bounds --------------------------------- *)
MaxOtps == 1
MaxIssued == 3
MaxUsers == 2
MaxRecoverOtps == 2
TickMs == 600000
MaxTime == 1200000

(* -------------------------- program constants -------------------------- *)
OTP_EXPIRY_MINUTES == 10
JWT_EXPIRY_MINUTES == 15
RATE_LIMIT_WINDOW_MS == 15 * 60 * 1000
MAX_ATTEMPTS == 3
SIGNUP_CREDITS == 50
ADMIN_DEFAULT_CREDITS == 100
MaxCredits == 150
MaxCreditUsers == 2

Procs == {1, 2}
Purposes == {"password_reset", "email_verification"}
Codes == {"111111"}
CodeInputs == {"111111", "999999"}
PlainPasswords == {<<"p">>, <<"q">>}

VARIABLES users, otps, now, req, tokens, last, likes

vars == <<users, otps, now, req, tokens, last, likes>>

(* ------------------------------ strings -------------------------------- *)
\* String.prototype.toLowerCase, character by character.
LowerChar(c) ==
  CASE c = "A" -> "a"
    [] c = "B" -> "b"
    [] c = "C" -> "c"
    [] c = "D" -> "d"
    [] OTHER -> c

toLowerCase(s) == [i \in 1..Len(s) |-> LowerChar(s[i])]

\* Postgres ILIKE with the request's email as the pattern: letters compare
\* without case and "_" in the pattern stands for any one character.
ILike(s, pattern) ==
  /\ Len(s) = Len(pattern)
  /\ \A i \in 1..Len(s) :
        pattern[i] = "_" \/ LowerChar(pattern[i]) = LowerChar(s[i])

(* ----------------------------- passwords ------------------------------- *)
\* bcrypt.hash: the stored value is not the plaintext, and hashing a hash
\* gives yet another value.
Hash(pw) == <<"bcrypt">> \o pw

\* A comparison that accepts every password.
verifyPasswordAny(stored, pw) == TRUE

\* User.verifyPassword: bcrypt.compare(password, this.password).
verifyPassword(stored, pw) == stored = Hash(pw)

(* ------------------------------ responses ------------------------------ *)
AppError(message, statusCode) ==
  [app |-> TRUE, message |-> message, statusCode |-> statusCode]

\* What a finished Sequelize transaction throws when rollback() or commit()
\* is called on it again: a plain Error, not an AppError.
PlainError == [app |-> FALSE, message |-> "Error", statusCode |-> 0]

\* errorHandler: an AppError gives its own status and message, anything
\* else 500 "Internal Server Error".
errorHandler(err) ==
  IF err.app
    THEN [status |-> err.statusCode, message |-> err.message]
    ELSE [status |-> 500, message |-> "Internal Server Error"]

Ok(status, message) == [status |-> status, message |-> message]

NoRes == [status |-> 0, message |-> ""]

GENERIC_RESET_MESSAGE == "If the user exists, a password reset email has been sent"

(* ----------------------------- transactions ---------------------------- *)
\* The catch block of the workflows that call "await transaction.rollback()"
\* before looking at the error: on an open transaction the rollback goes
\* through and the error is rethrown (an AppError) or wrapped (anything
\* else); on a finished transaction rollback() itself throws and that
\* error is what leaves the workflow.
CatchRollbackFirst(err, txn, wrapped) ==
  IF txn # "open"
    THEN PlainError
    ELSE IF err.app THEN err ELSE wrapped

\* The catch block of register: an AppError is rethrown before any
\* rollback; anything else rolls back and is wrapped.
CatchRethrowFirst(err, txn, wrapped) ==
  IF err.app
    THEN err
    ELSE IF txn # "open" THEN PlainError ELSE wrapped

(* ------------------------------- tokens -------------------------------- *)
\* A JWT payload: sub, purpose and iat are the claims of a reset token, id
\* and type those of an access or refresh token (a claim a token does not
\* carry is 0 or ""), exp the expiry jwt.sign derives from expiresIn.
NoToken ==
  [sub |-> 0, purpose |-> "", iat |-> 0, id |-> 0, role |-> "", type |-> "", exp |-> 0]

(* ------------------------------ requests ------------------------------- *)
\* No row of users.
NoRow ==
  [email |-> <<>>, password |-> <<>>, emailVerified |-> FALSE, credits |-> 0,
   status |-> "", deleted |-> FALSE, role |-> "", id |-> 0, referralCode |-> <<>>]

\* The locals of one request.  uid, email, code, otp, exp, newpw (the
\* password of the request), cur (the current password given to
\* change-password), tok are the handler's variables; txn is the
\* state of its transaction; lock is the set of otps rows it has updated
\* under the transaction, pendVerified and pendPassword the users columns
\* it has updated under it, pendRow the users row it has inserted or
\* rewritten under it; data holds the columns an admin handler passes to
\* user.update, amount and bal the amount of a credit
\* operation and the balance it read, content and like the
\* content of a like request and the row of likes it found.  inv (the rows createOTP invalidated) and fault (an
\* injected database failure) are history only.
NoData == [none |-> TRUE]

Blank ==
  [op |-> "idle", pc |-> "done", uid |-> 0, email |-> <<>>, code |-> "",
   purpose |-> "", otp |-> 0, exp |-> 0, inv |-> {}, lock |-> {},
   pendVerified |-> FALSE, pendPassword |-> <<>>, pendRow |-> NoRow,
   newpw |-> <<>>, cur |-> <<>>, txn |-> "none", fault |-> FALSE, tok |-> NoToken,
   data |-> NoData, amount |-> 0, bal |-> 0, content |-> 0, like |-> 0]

\* The response most recently delivered, with the request it answers; tok
\* is the token the request presented or the reset token it was given,
\* count the number a maintenance call returned, amount and bal the amount
\* of a credit operation and the balance it read.
NoLast ==
  [op |-> "idle", uid |-> 0, email |-> <<>>, pw |-> <<>>, cur |-> <<>>,
   code |-> "", otp |-> 0, fault |-> FALSE, txn |-> "none", res |-> NoRes,
   tok |-> NoToken, count |-> 0, amount |-> 0, bal |-> 0, content |-> 0]

Delivered(r, res, txn, tok) ==
  [op |-> r.op, uid |-> r.uid, email |-> r.email, pw |-> r.newpw,
   cur |-> r.cur, code |-> r.code, otp |-> r.otp, fault |-> r.fault, txn |-> txn,
   res |-> res, tok |-> tok, count |-> 0, amount |-> r.amount, bal |-> r.bal,
   content |-> r.content]

\* Request p, with locals r, ends by throwing err; txn is the state its
\* transaction is left in ("twice" when rollback met a finished one).
Throw(p, r, err, txn) ==
  /\ req' = [req EXCEPT ![p] = Blank]
  /\ last' = Delivered(r, errorHandler(err), txn, r.tok)

\* Request p, with locals r, ends by returning.
Return(p, r, status, message, txn, tok) ==
  /\ req' = [req EXCEPT ![p] = Blank]
  /\ last' = Delivered(r, Ok(status, message), txn, tok)

\* "await transaction.rollback(); throw err" inside the try block of a
\* workflow whose catch block rolls back first: the second rollback throws.
RollbackAndThrow(p, r, err, wrapped) ==
  Throw(p, r, CatchRollbackFirst(err, "rollback", wrapped), "twice")

(* ------------------------------- tables -------------------------------- *)
\* A row of users as User.create builds it (beforeCreate hashes the
\* password; role "user" unless given), before its id and referral code
\* are generated.
NewUser(email, pw, verified, credits, status) ==
  [email |-> email, password |-> Hash(pw), emailVerified |-> verified,
   credits |-> credits, status |-> status, deleted |-> FALSE, role |-> "user",
   id |-> 0, referralCode |-> <<>>]

\* beforeValidate of a new row: generateUserId and generateReferralCode
\* draw values no other row has; the n-th row is given the n-th ones.
Generated(row, n) == [row EXCEPT !.id = n, !.referralCode = <<"REF", n>>]

\* The table with a new row.
Inserted(row) == Append(users, Generated(row, Len(users) + 1))

SeedUsers ==
  << Generated(NewUser(<<"a", "b">>, <<"p">>, FALSE, SIGNUP_CREDITS, "active"), 1),
     Generated(NewUser(<<"c", "d">>, <<"p">>, FALSE, SIGNUP_CREDITS, "active"), 2) >>

\* Rows of otps another request holds locked: updated under a transaction
\* that has not finished.
LockedByOthers(p) == UNION {req[q].lock : q \in Procs \ {p}}

\* Rows of users another request holds locked.
UserLockedByOthers(p, u) ==
  \E q \in Procs \ {p} :
     /\ req[q].uid = u
     /\ req[q].pendVerified \/ req[q].pendPassword # <<>> \/ req[q].pendRow # NoRow

\* The where clause {userId, purpose, used: false, expiresAt > now}.
PendingOf(uid, purpose) ==
  {i \in DOMAIN otps :
     /\ otps[i].userId = uid
     /\ otps[i].purpose = purpose
     /\ ~otps[i].used
     /\ otps[i].expiresAt > now}

\* The lookup without its used: false condition.
FindOtpIgnoringUsed(uid, code, purpose) ==
  {i \in DOMAIN otps :
     /\ otps[i].userId = uid
     /\ otps[i].code = code
     /\ otps[i].purpose = purpose
     /\ otps[i].expiresAt > now}

\* The lookup without its userId condition.
FindOtpAnyUser(uid, code, purpose) ==
  {i \in DOMAIN otps :
     /\ otps[i].code = code
     /\ otps[i].purpose = purpose
     /\ otps[i].expiresAt > now
     /\ ~otps[i].used}

\* The where clause {userId, code, purpose, expiresAt > now, used: false}.
FindOtp(uid, code, purpose) ==
  {i \in DOMAIN otps :
     /\ otps[i].userId = uid
     /\ otps[i].code = code
     /\ otps[i].purpose = purpose
     /\ otps[i].expiresAt > now
     /\ ~otps[i].used}

\* order: [["createdAt", "DESC"]] with findOne's LIMIT 1.
Newest(s) == {i \in s : \A j \in s : otps[j].createdAt <= otps[i].createdAt}

\* OTP.count over {userId, purpose, createdAt > now - window}.
RecentAttempts(uid, purpose) ==
  Cardinality({i \in DOMAIN otps :
     /\ otps[i].userId = uid
     /\ otps[i].purpose = purpose
     /\ otps[i].createdAt > now - RATE_LIMIT_WINDOW_MS})

\* The limit applied one request late.
RateLimitedAbove(recentAttempts) == recentAttempts > MAX_ATTEMPTS

\* recentAttempts >= MAX_ATTEMPTS.
RateLimited(recentAttempts) == recentAttempts >= MAX_ATTEMPTS

\* UPDATE otps SET used = true on the rows of s.
MarkUsed(s) ==
  [i \in DOMAIN otps |-> IF i \in s THEN [otps[i] EXCEPT !.used = TRUE] ELSE otps[i]]

\* The same update made by a consumer that then reports success: wins, a
\* history field, counts the successful consumptions of the row.
MarkConsumed(s) ==
  [i \in DOMAIN otps |->
     IF i \in s THEN [otps[i] EXCEPT !.used = TRUE, !.wins = @ + 1] ELSE otps[i]]

\* Requests that are between the rate-limit check and the insert.
Issuing == {q \in Procs : req[q].pc \in {"invalidate", "insert"}}

(* ------------------------------- clock --------------------------------- *)
Tick ==
  /\ now + TickMs <= MaxTime
  /\ now' = now + TickMs
  /\ UNCHANGED <<likes, users, otps, req, tokens, last>>

(* --------------------------- forgot-password --------------------------- *)
\* const response = {message: ...}: the one object forgotPassword returns,
\* with the 200 of the controller.
ForgotPasswordResponse == Ok(200, GENERIC_RESET_MESSAGE)

\* An answer that tells an unknown email apart.
UnknownEmailNotFound == Ok(404, "USER_NOT_FOUND")

\* What forgotPassword answers when no user has the email.
UnknownEmailResponse == ForgotPasswordResponse

\* forgotPassword up to the user lookup: an unknown email commits and
\* returns the generic message.
ForgotPasswordFind(p, email) ==
  /\ req[p].pc = "done"
  /\ LET found == {u \in DOMAIN users :
                     ~users[u].deleted /\ ILike(users[u].email, email)}
         r == [Blank EXCEPT !.op = "forgotPassword", !.purpose = "password_reset"]
     IN IF found = {}
          THEN Return(p, r, UnknownEmailResponse.status, UnknownEmailResponse.message,
                      "commit", NoToken)
          ELSE /\ \E u \in found :
                    req' = [req EXCEPT ![p] = [r EXCEPT !.pc = "count", !.uid = u, !.txn = "open"]]
               /\ last' = NoLast
  /\ UNCHANGED <<likes, users, otps, now, tokens>>

\* The rate-limit check of forgotPassword: at the limit it commits and
\* returns the generic message, below it createOTP is called (while fewer
\* than max rows exist or are being issued).
ForgotPasswordCount(p, max) ==
  /\ req[p].pc = "count"
  /\ req[p].op = "forgotPassword"
  /\ IF RateLimited(RecentAttempts(req[p].uid, "password_reset"))
       THEN Return(p, req[p], 200, GENERIC_RESET_MESSAGE, "commit", NoToken)
       ELSE /\ Len(otps) + Cardinality(Issuing) < max
            /\ req' = [req EXCEPT ![p].pc = "invalidate"]
            /\ last' = last
  /\ UNCHANGED <<likes, users, otps, now, tokens>>

(* ---------------------- request-email-verification --------------------- *)
\* requestEmailVerification up to the user lookup: an unknown id rolls back
\* and throws USER_NOT_FOUND into the catch block, a verified user rolls
\* back and returns.
RequestEmailVerificationFind(p, userId) ==
  /\ req[p].pc = "done"
  /\ LET r == [Blank EXCEPT !.op = "requestEmailVerification",
                            !.purpose = "email_verification", !.uid = userId]
     IN IF userId \notin DOMAIN users \/ users[userId].deleted
          THEN RollbackAndThrow(p, r, AppError("USER_NOT_FOUND", 404),
                                AppError("EMAIL_VERIFICATION_ERROR", 500))
          ELSE IF users[userId].emailVerified
                 THEN Return(p, r, 200, "Email is already verified", "rollback", NoToken)
                 ELSE /\ req' = [req EXCEPT ![p] = [r EXCEPT !.pc = "count", !.txn = "open"]]
                      /\ last' = NoLast
  /\ UNCHANGED <<likes, users, otps, now, tokens>>

\* The rate-limit check of requestEmailVerification: at the limit it rolls
\* back and throws RATE_LIMITED into the catch block.
RequestEmailVerificationCount(p, max) ==
  /\ req[p].pc = "count"
  /\ req[p].op = "requestEmailVerification"
  /\ IF RateLimited(RecentAttempts(req[p].uid, "email_verification"))
       THEN RollbackAndThrow(p, req[p], AppError("RATE_LIMITED", 429),
                             AppError("EMAIL_VERIFICATION_ERROR", 500))
       ELSE /\ Len(otps) + Cardinality(Issuing) < max
            /\ req' = [req EXCEPT ![p].pc = "invalidate"]
            /\ last' = last
  /\ UNCHANGED <<likes, users, otps, now, tokens>>

(* ------------------------------ createOTP ------------------------------ *)
\* The first statement of OTP.createOTP: expiresAt is computed, then every
\* pending OTP of (userId, purpose) is marked used.  The callers pass no
\* transaction, so the update is committed by itself; it waits for rows
\* another transaction has updated.
CreateOTPInvalidate(p) ==
  /\ req[p].pc = "invalidate"
  /\ LET matched == PendingOf(req[p].uid, req[p].purpose)
     IN /\ matched \cap LockedByOthers(p) = {}
        /\ otps' = MarkUsed(matched)
        /\ req' = [req EXCEPT ![p].pc = "insert",
                              ![p].exp = now + OTP_EXPIRY_MINUTES * 60 * 1000,
                              ![p].inv = matched]
  /\ UNCHANGED <<likes, users, now, tokens, last>>

\* The message the caller of createOTP returns once the row is inserted
\* and its transaction committed.
IssuedMessage(op) ==
  IF op = "forgotPassword"
    THEN GENERIC_RESET_MESSAGE
    ELSE "Verification code sent to your email"

\* The error a failed insert becomes in the caller's catch block.
WrappedIssueError(op) ==
  IF op = "forgotPassword"
    THEN AppError("PASSWORD_RESET_ERROR", 500)
    ELSE AppError("EMAIL_VERIFICATION_ERROR", 500)

\* The second statement of OTP.createOTP: the insert of the new row with a
\* freshly drawn code, again committed by itself; the caller then commits
\* and returns.  The insert can fail (ok = FALSE); the caller's catch block
\* then rolls its transaction back and throws the wrapped error.  The table
\* holds at most max rows.
CreateOTPInsert(p, code, ok, max) ==
  /\ req[p].pc = "insert"
  /\ Len(otps) < max
  /\ IF ok
       THEN /\ otps' = Append(otps, [userId |-> req[p].uid, code |-> code,
                                     purpose |-> req[p].purpose, expiresAt |-> req[p].exp,
                                     used |-> FALSE, createdAt |-> now, wins |-> 0])
            /\ Return(p, [req[p] EXCEPT !.otp = Len(otps) + 1], 200,
                      IssuedMessage(req[p].op), "commit", NoToken)
       ELSE /\ otps' = otps
            /\ Throw(p, [req[p] EXCEPT !.fault = TRUE],
                     CatchRollbackFirst(PlainError, "open", WrappedIssueError(req[p].op)),
                     "rollback")
  /\ UNCHANGED <<likes, users, now, tokens>>

(* ------------------------- cleanupExpiredOTPs -------------------------- *)
\* The sweep with expiresAt <= now as its where clause.
cleanupThroughNow ==
  /\ LET matched == {i \in DOMAIN otps : ~otps[i].used /\ otps[i].expiresAt <= now}
     IN /\ matched \cap LockedByOthers(0) = {}
        /\ otps' = MarkUsed(matched)
        /\ last' = [NoLast EXCEPT !.op = "cleanupExpiredOTPs",
                                  !.count = Cardinality(matched)]
  /\ UNCHANGED <<likes, users, now, req, tokens>>

\* One UPDATE: used = true where used = false and expiresAt < now; it waits
\* for rows a transaction has updated, and returns result[0], the number of
\* rows it changed.
cleanupExpiredOTPs ==
  /\ LET matched == {i \in DOMAIN otps : ~otps[i].used /\ otps[i].expiresAt < now}
     IN /\ matched \cap LockedByOthers(0) = {}
        /\ otps' = MarkUsed(matched)
        /\ last' = [NoLast EXCEPT !.op = "cleanupExpiredOTPs",
                                  !.count = Cardinality(matched)]
  /\ UNCHANGED <<likes, users, now, req, tokens>>

(* ------------------------------ verify-otp ----------------------------- *)
\* verifyOtp up to the user lookup: an unknown email rolls back and throws
\* INVALID_OTP into the catch block.
VerifyOtpFindUser(p, email, code) ==
  /\ req[p].pc = "done"
  /\ LET found == {u \in DOMAIN users :
                     ~users[u].deleted /\ ILike(users[u].email, email)}
         r == [Blank EXCEPT !.op = "verifyOtp", !.purpose = "password_reset",
                            !.code = code]
     IN IF found = {}
          THEN RollbackAndThrow(p, r, AppError("INVALID_OTP", 400),
                                AppError("OTP_VERIFICATION_ERROR", 500))
          ELSE /\ \E u \in found :
                    req' = [req EXCEPT ![p] = [r EXCEPT !.pc = "findOtp", !.uid = u, !.txn = "open"]]
               /\ last' = NoLast
  /\ UNCHANGED <<likes, users, otps, now, tokens>>

\* OTP.findOne of verifyOtp, newest first: no row rolls back and throws
\* INVALID_OTP into the catch block.
VerifyOtpFindOtp(p) ==
  /\ req[p].pc = "findOtp"
  /\ req[p].op = "verifyOtp"
  /\ LET found == Newest(FindOtp(req[p].uid, req[p].code, "password_reset"))
     IN IF found = {}
          THEN RollbackAndThrow(p, req[p], AppError("INVALID_OTP", 400),
                                AppError("OTP_VERIFICATION_ERROR", 500))
          ELSE /\ \E i \in found : req' = [req EXCEPT ![p].pc = "markOtp", ![p].otp = i]
               /\ last' = last
  /\ UNCHANGED <<likes, users, otps, now, tokens>>

\* jwt.sign({sub, purpose, iat}) with expiresIn taken from the iat given.
SignResetToken(uid) ==
  [sub |-> uid, purpose |-> "password_reset", iat |-> now \div 1000, id |-> 0,
   role |-> "", type |-> "", exp |-> now \div 1000 + JWT_EXPIRY_MINUTES * 60]

\* otpRecord.update({used: true}, {transaction}): UPDATE ... WHERE id, which
\* waits while another transaction holds the row; then the reset token is
\* signed.
VerifyOtpMark(p) ==
  /\ req[p].pc = "markOtp"
  /\ req[p].op = "verifyOtp"
  /\ req[p].otp \notin LockedByOthers(p)
  /\ req' = [req EXCEPT ![p].pc = "commit", ![p].lock = {req[p].otp},
                        ![p].tok = SignResetToken(req[p].uid)]
  /\ UNCHANGED <<likes, users, otps, now, tokens, last>>

\* transaction.commit() of verifyOtp and the return of {resetToken}.
VerifyOtpCommit(p) ==
  /\ req[p].pc = "commit"
  /\ req[p].op = "verifyOtp"
  /\ otps' = MarkConsumed(req[p].lock)
  /\ tokens' = tokens \cup {req[p].tok}
  /\ Return(p, req[p], 200, "resetToken", "commit", req[p].tok)
  /\ UNCHANGED <<likes, users, now>>

(* ----------------------------- verify-email ---------------------------- *)
\* verifyEmail up to the user lookup.
VerifyEmailFindUser(p, userId, code) ==
  /\ req[p].pc = "done"
  /\ LET r == [Blank EXCEPT !.op = "verifyEmail", !.purpose = "email_verification",
                            !.uid = userId, !.code = code]
     IN IF userId \notin DOMAIN users \/ users[userId].deleted
          THEN RollbackAndThrow(p, r, AppError("USER_NOT_FOUND", 404),
                                AppError("EMAIL_VERIFICATION_ERROR", 500))
          ELSE IF users[userId].emailVerified
                 THEN Return(p, r, 200, "Email is already verified", "rollback", NoToken)
                 ELSE /\ req' = [req EXCEPT ![p] = [r EXCEPT !.pc = "findOtp", !.txn = "open"]]
                      /\ last' = NoLast
  /\ UNCHANGED <<likes, users, otps, now, tokens>>

\* OTP.findOne of verifyEmail (no order): no row rolls back and throws
\* INVALID_CODE into the catch block.
VerifyEmailFindOtp(p) ==
  /\ req[p].pc = "findOtp"
  /\ req[p].op = "verifyEmail"
  /\ LET found == FindOtp(req[p].uid, req[p].code, "email_verification")
     IN IF found = {}
          THEN RollbackAndThrow(p, req[p], AppError("INVALID_CODE", 400),
                                AppError("EMAIL_VERIFICATION_ERROR", 500))
          ELSE /\ \E i \in found : req' = [req EXCEPT ![p].pc = "markOtp", ![p].otp = i]
               /\ last' = last
  /\ UNCHANGED <<likes, users, otps, now, tokens>>

\* otpRecord.update({used: true}, {transaction}).
VerifyEmailMarkOtp(p) ==
  /\ req[p].pc = "markOtp"
  /\ req[p].op = "verifyEmail"
  /\ req[p].otp \notin LockedByOthers(p)
  /\ req' = [req EXCEPT ![p].pc = "markUser", ![p].lock = {req[p].otp}]
  /\ UNCHANGED <<likes, users, otps, now, tokens, last>>

\* user.update({emailVerified: true}, {transaction}).
VerifyEmailMarkUser(p) ==
  /\ req[p].pc = "markUser"
  /\ ~UserLockedByOthers(p, req[p].uid)
  /\ req' = [req EXCEPT ![p].pc = "commit", ![p].pendVerified = TRUE]
  /\ UNCHANGED <<likes, users, otps, now, tokens, last>>

\* transaction.commit() of verifyEmail.
VerifyEmailCommit(p) ==
  /\ req[p].pc = "commit"
  /\ req[p].op = "verifyEmail"
  /\ otps' = MarkConsumed(req[p].lock)
  /\ users' = [users EXCEPT ![req[p].uid].emailVerified = TRUE]
  /\ Return(p, req[p], 200, "Email verified successfully", "commit", NoToken)
  /\ UNCHANGED <<likes, now, tokens>>

(* ------------------------- OTP.verifyAndConsumeOTP --------------------- *)
\* OTP.verifyOTP as verifyAndConsumeOTP calls it: null is returned when no
\* row matches.
VerifyAndConsumeFind(p, userId, code, purpose) ==
  /\ req[p].pc = "done"
  /\ LET r == [Blank EXCEPT !.op = "verifyAndConsumeOTP", !.purpose = purpose,
                            !.uid = userId, !.code = code]
         found == FindOtp(userId, code, purpose)
     IN IF found = {}
          THEN Return(p, r, 0, "null", "none", NoToken)
          ELSE /\ \E i \in found :
                    req' = [req EXCEPT ![p] = [r EXCEPT !.pc = "markAsUsed", !.otp = i]]
               /\ last' = NoLast
  /\ UNCHANGED <<likes, users, otps, now, tokens>>

\* otp.markAsUsed(): used = true and save(), an UPDATE ... WHERE id that is
\* committed by itself; the OTP is returned.
markAsUsed(p) ==
  /\ req[p].pc = "markAsUsed"
  /\ req[p].otp \notin LockedByOthers(p)
  /\ otps' = MarkConsumed({req[p].otp})
  /\ Return(p, req[p], 0, "otp", "none", NoToken)
  /\ UNCHANGED <<likes, users, now, tokens>>

(* ---------------------------- reset-password --------------------------- *)
\* A verification that does not check the signature.
JwtUnsigned(token) == now \div 1000 < token.exp

\* jwt.verify: the token was signed by this server and is not expired.
JwtValid(token) ==
  /\ token \in tokens
  /\ now \div 1000 < token.exp

\* resetPassword up to the same-password check.  A token jwt.verify rejects
\* reaches the catch block with the transaction open and becomes
\* INVALID_TOKEN 401; the other failures roll back before they throw.
ResetPasswordFind(p, token, newPassword) ==
  /\ req[p].pc = "done"
  /\ LET r == [Blank EXCEPT !.op = "resetPassword", !.purpose = "password_reset",
                            !.uid = token.sub, !.newpw = newPassword, !.tok = token]
     IN IF ~JwtValid(token)
          THEN Throw(p, r, AppError("INVALID_TOKEN", 401), "rollback")
          ELSE IF token.purpose # "password_reset"
            THEN RollbackAndThrow(p, r, AppError("INVALID_TOKEN", 400),
                                  AppError("PASSWORD_RESET_ERROR", 500))
          ELSE IF token.sub \notin DOMAIN users \/ users[token.sub].deleted
            THEN RollbackAndThrow(p, r, AppError("USER_NOT_FOUND", 404),
                                  AppError("PASSWORD_RESET_ERROR", 500))
          ELSE IF verifyPassword(users[token.sub].password, newPassword)
            THEN RollbackAndThrow(p, r, AppError("SAME_PASSWORD", 400),
                                  AppError("PASSWORD_RESET_ERROR", 500))
          ELSE /\ req' = [req EXCEPT ![p] = [r EXCEPT !.pc = "updateUser", !.txn = "open"]]
               /\ last' = NoLast
  /\ UNCHANGED <<likes, users, otps, now, tokens>>

\* The update with a password that was hashed before the hook hashes it.
ResetPasswordUpdateUserRehashed(p) ==
  /\ req[p].pc = "updateUser"
  /\ ~UserLockedByOthers(p, req[p].uid)
  /\ req' = [req EXCEPT ![p].pc = "updateOtps", ![p].pendPassword = Hash(Hash(req[p].newpw))]
  /\ UNCHANGED <<likes, users, otps, now, tokens, last>>

\* user.update({password}, {transaction}); beforeUpdate hashes it.
ResetPasswordUpdateUser(p) ==
  /\ req[p].pc = "updateUser"
  /\ ~UserLockedByOthers(p, req[p].uid)
  /\ req' = [req EXCEPT ![p].pc = "updateOtps", ![p].pendPassword = Hash(req[p].newpw)]
  /\ UNCHANGED <<likes, users, otps, now, tokens, last>>

\* A reset that leaves the OTPs alone.
ResetPasswordSkipOtps(p) ==
  /\ req[p].pc = "updateOtps"
  /\ req' = [req EXCEPT ![p].pc = "commit", ![p].lock = {}]
  /\ UNCHANGED <<likes, users, otps, now, tokens, last>>

\* OTP.update({used: true}, {where: {userId, purpose, used: false},
\* transaction}).
ResetPasswordUpdateOtps(p) ==
  /\ req[p].pc = "updateOtps"
  /\ LET matched == {i \in DOMAIN otps :
                       /\ otps[i].userId = req[p].uid
                       /\ otps[i].purpose = "password_reset"
                       /\ ~otps[i].used}
     IN /\ matched \cap LockedByOthers(p) = {}
        /\ req' = [req EXCEPT ![p].pc = "commit", ![p].lock = matched]
  /\ UNCHANGED <<likes, users, otps, now, tokens, last>>

\* transaction.commit() of resetPassword.
ResetPasswordCommit(p) ==
  /\ req[p].pc = "commit"
  /\ req[p].op = "resetPassword"
  /\ otps' = MarkUsed(req[p].lock)
  /\ users' = [users EXCEPT ![req[p].uid].password = req[p].pendPassword]
  /\ Return(p, req[p], 200, "Password updated successfully", "commit", req[p].tok)
  /\ UNCHANGED <<likes, now, tokens>>

(* ------------------------------ register ------------------------------- *)
\* The unique index users_email_idx: the emails are compared as stored,
\* and a soft-deleted row still holds its email.
EmailTaken(email, except) ==
  \E u \in DOMAIN users \ {except} : users[u].email = email

\* An insert or update of email waits while another transaction holds an
\* uncommitted row with that email.
EmailPendingByOthers(p, email) ==
  \E q \in Procs \ {p} : req[q].pendRow # NoRow /\ req[q].pendRow.email = email

\* User.findOne({where: {email}}) of the paranoid model: soft-deleted rows
\* are not seen.
FindUserByEmail(email) ==
  {u \in DOMAIN users : ~users[u].deleted /\ users[u].email = email}

\* register up to the uniqueness check: a hit rolls back and throws
\* EMAIL EXISTS, which the catch block rethrows before any rollback.
RegisterFind(p, email, password) ==
  /\ req[p].pc = "done"
  /\ LET r == [Blank EXCEPT !.op = "register", !.email = email, !.newpw = password]
     IN IF FindUserByEmail(toLowerCase(email)) # {}
          THEN Throw(p, r, CatchRethrowFirst(AppError("EMAIL EXISTS", 400), "rollback",
                                             AppError("REGISTRATION ERROR", 500)),
                     "rollback")
          ELSE /\ req' = [req EXCEPT ![p] = [r EXCEPT !.pc = "create", !.txn = "open"]]
               /\ last' = NoLast
  /\ UNCHANGED <<likes, users, otps, now, tokens>>

\* User.create of register under the transaction: the email is stored
\* lower-cased, the password hashed by beforeCreate, credits 50.  A taken
\* email violates the unique index; the catch block rolls back and throws
\* REGISTRATION ERROR.
RegisterCreate(p, max) ==
  /\ req[p].pc = "create"
  /\ req[p].op = "register"
  /\ LET email == toLowerCase(req[p].email)
     IN /\ ~EmailPendingByOthers(p, email)
        /\ IF EmailTaken(email, 0)
             THEN Throw(p, req[p],
                        CatchRethrowFirst(PlainError, "open", AppError("REGISTRATION ERROR", 500)),
                        "rollback")
             ELSE /\ Len(users) + Cardinality({q \in Procs : req[q].pendRow # NoRow /\ req[q].uid = 0}) < max
                  /\ req' = [req EXCEPT ![p].pc = "commit",
                                        ![p].pendRow = NewUser(email, req[p].newpw, FALSE,
                                                               SIGNUP_CREDITS, "active")]
                  /\ last' = last
  /\ UNCHANGED <<likes, users, otps, now, tokens>>

\* transaction.commit() of register and the 201 of the controller.
RegisterCommit(p) ==
  /\ req[p].pc = "commit"
  /\ req[p].op = "register"
  /\ users' = Inserted(req[p].pendRow)
  /\ Return(p, [req[p] EXCEPT !.uid = Len(users) + 1], 201,
            "User registered successfully", "commit", NoToken)
  /\ UNCHANGED <<likes, otps, now, tokens>>

(* -------------------------------- login -------------------------------- *)
\* generateAuthTokens: an access token (expiresIn 360d) and a refresh token
\* (expiresIn 7d) for the user, signed with the secret the reset tokens are
\* signed with.
generateAuthTokens(u, role) ==
  [accessToken |-> [sub |-> 0, purpose |-> "", iat |-> now \div 1000, id |-> u,
                    role |-> role, type |-> "ACCESS",
                    exp |-> now \div 1000 + 360 * 86400],
   refreshToken |-> [sub |-> 0, purpose |-> "", iat |-> now \div 1000, id |-> u,
                     role |-> role, type |-> "REFRESH",
                     exp |-> now \div 1000 + 7 * 86400]]

\* The tokens signed so far, with the pair signed for user u.
WithAuthTokens(u, role) ==
  tokens \cup {generateAuthTokens(u, role).accessToken,
               generateAuthTokens(u, role).refreshToken}

\* User.findOne({where: {email, status: ["active", "inactive"]}}).
FindLoginUser(email) ==
  {u \in FindUserByEmail(email) : users[u].status \in {"active", "inactive"}}

\* login: one lookup, then the password and status checks and the tokens.
login(p, email, password) ==
  /\ req[p].pc = "done"
  /\ LET r == [Blank EXCEPT !.op = "login", !.email = email, !.newpw = password]
         found == FindLoginUser(toLowerCase(email))
     IN IF found = {}
          THEN /\ Throw(p, r, AppError("INVALID_CREDENTIALS", 401), "none")
               /\ tokens' = tokens
          ELSE \E u \in found :
                 IF ~verifyPassword(users[u].password, password)
                   THEN /\ Throw(p, [r EXCEPT !.uid = u], AppError("INVALID_CREDENTIALS", 401), "none")
                        /\ tokens' = tokens
                   ELSE IF users[u].status = "blocked"
                     THEN /\ Throw(p, [r EXCEPT !.uid = u], AppError("ACCOUNT_BLOCKED", 403), "none")
                          /\ tokens' = tokens
                     ELSE /\ Return(p, [r EXCEPT !.uid = u], 200, "Login successful", "none", NoToken)
                          /\ tokens' = WithAuthTokens(u, users[u].role)
  /\ UNCHANGED <<likes, users, otps, now>>

(* ---------------------------- token checks ---------------------------- *)
\* refreshToken: jwt.verify, the type check, the user lookup, new tokens.
\* Whatever is not an AppError becomes TOKEN_REFRESH_ERROR 401.
refreshToken(p, token) ==
  /\ req[p].pc = "done"
  /\ LET r == [Blank EXCEPT !.op = "refreshToken", !.uid = token.id]
     IN IF ~JwtValid(token)
          THEN /\ Throw(p, r, AppError("TOKEN_REFRESH_ERROR", 401), "none")
               /\ tokens' = tokens
          ELSE IF token.type # "REFRESH"
            THEN /\ Throw(p, r, AppError("INVALID_TOKEN_TYPE", 401), "none")
                 /\ tokens' = tokens
          ELSE IF token.id \notin DOMAIN users \/ users[token.id].deleted
            THEN /\ Throw(p, r, AppError("USER_NOT_FOUND", 404), "none")
                 /\ tokens' = tokens
          ELSE /\ Return(p, r, 200, "Token refreshed successfully", "none", token)
               /\ tokens' = WithAuthTokens(token.id, users[token.id].role)
  /\ UNCHANGED <<likes, users, otps, now>>

\* verifyAuthToken (POST /verify-token): NO_TOKEN without a token,
\* INVALID_TOKEN when jwt.verify rejects it, then the type check and the
\* user lookup.
verifyAuthToken(p, token) ==
  /\ req[p].pc = "done"
  /\ LET r == [Blank EXCEPT !.op = "verifyAuthToken", !.uid = token.id]
     IN IF token = NoToken
          THEN Throw(p, r, AppError("NO_TOKEN", 401), "none")
          ELSE IF ~JwtValid(token)
            THEN Throw(p, r, AppError("INVALID_TOKEN", 401), "none")
          ELSE IF token.type # "ACCESS"
            THEN Throw(p, r, AppError("INVALID_TOKEN_TYPE", 401), "none")
          ELSE IF token.id \notin DOMAIN users \/ users[token.id].deleted
            THEN Throw(p, r, AppError("USER_NOT_FOUND", 404), "none")
          ELSE Return(p, r, 200, "Token is valid", "none", token)
  /\ UNCHANGED <<likes, users, otps, now, tokens>>

\* The middleware isAuthenticated = Auth(null, false): the payload it puts
\* in req.payload.  Without a token, or with one jwt.verify rejects, the
\* request goes on with no payload (NoToken); no role is required.
Auth(token) ==
  IF token # NoToken /\ JwtValid(token) THEN token ELSE NoToken

\* POST /logout behind isAuthenticated: the controller reads the token of
\* the body and logout answers; req.payload is not read.
logout(p, token) ==
  /\ req[p].pc = "done"
  /\ Return(p, [Blank EXCEPT !.op = "logout", !.uid = Auth(token).id, !.tok = token],
            200, "Logout successful", "none", token)
  /\ UNCHANGED <<likes, users, otps, now, tokens>>

\* POST /logout-all behind isAuthenticated: the controller reads
\* req.payload.id, a TypeError when there is no payload, and logoutAll
\* answers for whatever id it is given.
logoutAll(p, token) ==
  /\ req[p].pc = "done"
  /\ LET r == [Blank EXCEPT !.op = "logoutAll", !.uid = Auth(token).id, !.tok = token]
     IN IF Auth(token) = NoToken
          THEN Throw(p, r, PlainError, "none")
          ELSE Return(p, r, 200, "Logged out from all devices", "none", token)
  /\ UNCHANGED <<likes, users, otps, now, tokens>>

(* ---------------------------- change-password -------------------------- *)
\* POST /change-password behind isAuthenticated, up to the checks of
\* changePassword: the user of req.payload.id, the current password, the
\* new password.  Each failure rolls back and throws into the catch block.
ChangePasswordFind(p, token, currentPassword, newPassword) ==
  /\ req[p].pc = "done"
  /\ LET userId == Auth(token).id
         r == [Blank EXCEPT !.op = "changePassword", !.uid = userId,
                            !.cur = currentPassword, !.newpw = newPassword,
                            !.tok = token]
     IN IF Auth(token) = NoToken
          THEN Throw(p, r, PlainError, "none")
          ELSE IF userId \notin DOMAIN users \/ users[userId].deleted
            THEN RollbackAndThrow(p, r, AppError("USER_NOT_FOUND", 404),
                                  AppError("PASSWORD_CHANGE_ERROR", 500))
          ELSE IF ~verifyPassword(users[userId].password, currentPassword)
            THEN RollbackAndThrow(p, r, AppError("INVALID_PASSWORD", 400),
                                  AppError("PASSWORD_CHANGE_ERROR", 500))
          ELSE IF verifyPassword(users[userId].password, newPassword)
            THEN RollbackAndThrow(p, r, AppError("SAME_PASSWORD", 400),
                                  AppError("PASSWORD_CHANGE_ERROR", 500))
          ELSE /\ req' = [req EXCEPT ![p] = [r EXCEPT !.pc = "changeUpdate", !.txn = "open"]]
               /\ last' = NoLast
  /\ UNCHANGED <<likes, users, otps, now, tokens>>

\* user.update({password: newPassword}, {transaction}); beforeUpdate
\* hashes it.
ChangePasswordUpdate(p) ==
  /\ req[p].pc = "changeUpdate"
  /\ ~UserLockedByOthers(p, req[p].uid)
  /\ req' = [req EXCEPT ![p].pc = "commit", ![p].pendPassword = Hash(req[p].newpw)]
  /\ UNCHANGED <<likes, users, otps, now, tokens, last>>

\* transaction.commit() of changePassword.
ChangePasswordCommit(p) ==
  /\ req[p].pc = "commit"
  /\ req[p].op = "changePassword"
  /\ users' = [users EXCEPT ![req[p].uid].password = req[p].pendPassword]
  /\ Return(p, req[p], 200, "Password changed successfully", "commit", req[p].tok)
  /\ UNCHANGED <<likes, otps, now, tokens>>

(* --------------------------- federated login --------------------------- *)
FederatedMessage(provider) ==
  IF provider = "google" THEN "Google login successful" ELSE "Facebook login successful"

FederatedError(provider) ==
  IF provider = "google"
    THEN AppError("GOOGLE_LOGIN_ERROR", 500)
    ELSE AppError("FACEBOOK_LOGIN_ERROR", 500)

\* googleLogin / facebookLogin once the provider has answered with email:
\* the user is looked up and, when found, given tokens.
FederatedFind(p, provider, email) ==
  /\ req[p].pc = "done"
  /\ LET r == [Blank EXCEPT !.op = provider, !.email = email]
         found == FindUserByEmail(toLowerCase(email))
     IN IF found # {}
          THEN \E u \in found :
                 /\ Return(p, [r EXCEPT !.uid = u], 200, FederatedMessage(provider), "none", NoToken)
                 /\ tokens' = WithAuthTokens(u, users[u].role)
          ELSE /\ req' = [req EXCEPT ![p] = [r EXCEPT !.pc = "create"]]
               /\ last' = NoLast
               /\ tokens' = tokens
  /\ UNCHANGED <<likes, users, otps, now>>

\* User.create of the federated logins, committed by itself: the email
\* lower-cased, emailVerified true, credits 50, a random password.  Every
\* error becomes the provider's 500.
FederatedCreate(p, max) ==
  /\ req[p].pc = "create"
  /\ req[p].op \in {"google", "facebook"}
  /\ LET email == toLowerCase(req[p].email)
     IN /\ ~EmailPendingByOthers(p, email)
        /\ IF EmailTaken(email, 0)
             THEN /\ users' = users
                  /\ tokens' = tokens
                  /\ Throw(p, req[p], FederatedError(req[p].op), "none")
             ELSE /\ Len(users) + Cardinality({q \in Procs : req[q].pendRow # NoRow /\ req[q].uid = 0}) < max
                  /\ users' = Inserted(NewUser(email, <<"uuid">>, TRUE, SIGNUP_CREDITS, "active"))
                  /\ tokens' = WithAuthTokens(Len(users) + 1, "user")
                  /\ Return(p, [req[p] EXCEPT !.uid = Len(users) + 1], 200,
                            FederatedMessage(req[p].op), "none", NoToken)
  /\ UNCHANGED <<likes, otps, now>>

(* --------------------------- admin createUser -------------------------- *)
\* createUser up to the uniqueness check, made with the email as given and
\* over soft-deleted rows too: a hit rolls back and throws 409 into the
\* catch block.
CreateUserFind(p, email, password, status) ==
  /\ req[p].pc = "done"
  /\ LET r == [Blank EXCEPT !.op = "createUser", !.email = email, !.newpw = password,
                            !.purpose = status]
     IN IF EmailTaken(email, 0)
          THEN RollbackAndThrow(p, r, AppError("User with this email already exists", 409),
                                AppError("User creation error", 500))
          ELSE /\ req' = [req EXCEPT ![p] = [r EXCEPT !.pc = "create", !.txn = "open"]]
               /\ last' = NoLast
  /\ UNCHANGED <<likes, users, otps, now, tokens>>

\* User.create of createUser under the transaction: the email as given,
\* credits 100 by default.
CreateUserCreate(p, max) ==
  /\ req[p].pc = "create"
  /\ req[p].op = "createUser"
  /\ ~EmailPendingByOthers(p, req[p].email)
  /\ IF EmailTaken(req[p].email, 0)
       THEN Throw(p, req[p],
                  CatchRollbackFirst(PlainError, "open", AppError("User creation error", 500)),
                  "rollback")
       ELSE /\ Len(users) + Cardinality({q \in Procs : req[q].pendRow # NoRow /\ req[q].uid = 0}) < max
            /\ req' = [req EXCEPT ![p].pc = "commit",
                                  ![p].pendRow = NewUser(req[p].email, req[p].newpw, FALSE,
                                                         ADMIN_DEFAULT_CREDITS, req[p].purpose)]
            /\ last' = last
  /\ UNCHANGED <<likes, users, otps, now, tokens>>

\* transaction.commit() of createUser and the 201 of the controller.
CreateUserCommit(p) ==
  /\ req[p].pc = "commit"
  /\ req[p].op = "createUser"
  /\ users' = Inserted(req[p].pendRow)
  /\ Return(p, [req[p] EXCEPT !.uid = Len(users) + 1], 201, "User created successfully",
            "commit", NoToken)
  /\ UNCHANGED <<likes, otps, now, tokens>>

(* ----------------------- admin user management ------------------------ *)
\* The routers of the admin routes: router.use(isAdmin), then
\* router.use(isAuthenticated), both Auth(null, false).  The handlers do not
\* read req.payload; the token of the request is kept in tok.

\* What the catch block of an admin workflow throws for an error that is
\* not an AppError.
AdminError(op) ==
  CASE op = "updateUser" -> AppError("User update error", 500)
    [] op = "deleteUser" -> AppError("User deletion error", 500)
    [] op = "restoreUser" -> AppError("User restoration error", 500)
    [] op = "adjustUserCredits" -> AppError("Credits adjustment error", 500)
    [] op = "changeUserPassword" -> AppError("Password change error", 500)
    [] op = "toggleUserStatus" -> AppError("User status update error", 500)
    [] OTHER -> AppError("Bulk update error", 500)

\* The message of the object an admin workflow returns; adjustUserCredits
\* and toggleUserStatus put the operation and the status in it, and
\* bulkUpdateUsers the number of rows (kept in count).
AdminMessage(r) ==
  CASE r.op = "updateUser" -> "User updated successfully"
    [] r.op = "deleteUser" -> "User deleted successfully"
    [] r.op = "restoreUser" -> "User restored successfully"
    [] r.op = "adjustUserCredits" ->
         (CASE r.purpose = "add" -> "User credits added successfully"
            [] r.purpose = "deduct" -> "User credits deducted successfully"
            [] OTHER -> "User credits seted successfully")
    [] r.op = "changeUserPassword" -> "User password changed successfully"
    [] r.op = "toggleUserStatus" ->
         (CASE r.purpose = "blocked" -> "User blocked successfully"
            [] r.purpose = "inactive" -> "User inactive successfully"
            [] OTHER -> "User active successfully")
    [] OTHER -> "users updated successfully"

\* The columns with no validator on credits.
ValidatesAny(data) == "credits" \in DOMAIN data => data.credits \in Int

\* The validators of the columns: credits has validate: {min: 0}.
Validates(data) == "credits" \in DOMAIN data => data.credits >= 0

\* The row after the columns of data are written to it; beforeUpdate
\* hashes a password that changed.
Updated(row, data) ==
  [k \in DOMAIN row |->
     IF k \in DOMAIN data
       THEN IF k = "password" THEN Hash(data[k]) ELSE data[k]
       ELSE row[k]]

\* updateUser up to its lookups: the user by id, then, when the email
\* changes, any other row (soft-deleted too) holding the new email as
\* given.  updateData holds the columns the request gives.
UpdateUserFind(p, token, userId, updateData) ==
  /\ req[p].pc = "done"
  /\ LET email == IF "email" \in DOMAIN updateData THEN updateData.email ELSE <<>>
         r == [Blank EXCEPT !.op = "updateUser", !.uid = userId, !.email = email,
                            !.data = updateData, !.tok = token,
                            !.newpw = IF "password" \in DOMAIN updateData
                                        THEN updateData.password ELSE <<>>]
     IN IF userId \notin DOMAIN users \/ users[userId].deleted
          THEN RollbackAndThrow(p, r, AppError("User not found", 404), AdminError(r.op))
          ELSE IF email # <<>> /\ email # users[userId].email /\ EmailTaken(email, userId)
            THEN RollbackAndThrow(p, r, AppError("Email already exists", 409),
                                  AdminError(r.op))
          ELSE /\ req' = [req EXCEPT ![p] = [r EXCEPT !.pc = "update", !.txn = "open"]]
               /\ last' = NoLast
  /\ UNCHANGED <<likes, users, otps, now, tokens>>

\* adjustUserCredits up to the new balance, computed from the row as read:
\* add, deduct (not below 0) or set (not below 0).
AdjustUserCreditsFind(p, token, userId, amount, operation) ==
  /\ req[p].pc = "done"
  /\ LET r == [Blank EXCEPT !.op = "adjustUserCredits", !.uid = userId, !.tok = token,
                            !.purpose = operation, !.amount = amount,
                            !.bal = IF userId \in DOMAIN users
                                      THEN users[userId].credits ELSE 0]
     IN IF userId \notin DOMAIN users \/ users[userId].deleted
          THEN RollbackAndThrow(p, r, AppError("User not found", 404), AdminError(r.op))
          ELSE LET credits == users[userId].credits
                   newCredits ==
                     CASE operation = "add" -> credits + amount
                       [] operation = "deduct" ->
                            IF credits - amount > 0 THEN credits - amount ELSE 0
                       [] OTHER -> IF amount > 0 THEN amount ELSE 0
               IN /\ req' = [req EXCEPT ![p] = [r EXCEPT !.pc = "update", !.txn = "open",
                                                        !.data = [credits |-> newCredits]]]
                  /\ last' = NoLast
  /\ UNCHANGED <<likes, users, otps, now, tokens>>

\* changeUserPassword up to the update: the new password is hashed by the
\* service before it is given to user.update.
ChangeUserPasswordFind(p, token, userId, newPassword) ==
  /\ req[p].pc = "done"
  /\ LET r == [Blank EXCEPT !.op = "changeUserPassword", !.uid = userId, !.tok = token,
                            !.newpw = newPassword]
     IN IF userId \notin DOMAIN users \/ users[userId].deleted
          THEN RollbackAndThrow(p, r, AppError("User not found", 404), AdminError(r.op))
          ELSE /\ req' = [req EXCEPT ![p] = [r EXCEPT !.pc = "update", !.txn = "open",
                                                     !.data = [password |-> Hash(newPassword)]]]
               /\ last' = NoLast
  /\ UNCHANGED <<likes, users, otps, now, tokens>>

\* toggleUserStatus up to the update.
ToggleUserStatusFind(p, token, userId, status) ==
  /\ req[p].pc = "done"
  /\ LET r == [Blank EXCEPT !.op = "toggleUserStatus", !.uid = userId, !.tok = token,
                            !.purpose = status]
     IN IF userId \notin DOMAIN users \/ users[userId].deleted
          THEN RollbackAndThrow(p, r, AppError("User not found", 404), AdminError(r.op))
          ELSE /\ req' = [req EXCEPT ![p] = [r EXCEPT !.pc = "update", !.txn = "open",
                                                     !.data = [status |-> status]]]
               /\ last' = NoLast
  /\ UNCHANGED <<likes, users, otps, now, tokens>>

\* user.update(data, {transaction}) of updateUser, adjustUserCredits,
\* changeUserPassword and toggleUserStatus: the columns are validated and
\* written under the transaction.  A column that does not validate or an
\* email another row holds throws into the catch block.
UpdateUserUpdate(p) ==
  /\ req[p].pc = "update"
  /\ ~UserLockedByOthers(p, req[p].uid)
  /\ req[p].email # <<>> => ~EmailPendingByOthers(p, req[p].email)
  /\ IF \/ req[p].email # <<>> /\ EmailTaken(req[p].email, req[p].uid)
        \/ ~Validates(req[p].data)
       THEN Throw(p, req[p],
                  CatchRollbackFirst(PlainError, "open", AdminError(req[p].op)),
                  "rollback")
       ELSE /\ req' = [req EXCEPT ![p].pc = "commit",
                                  ![p].pendRow = Updated(users[req[p].uid], req[p].data)]
            /\ last' = last
  /\ UNCHANGED <<likes, users, otps, now, tokens>>

\* transaction.commit() of the admin workflows on one user.
AdminCommit(p) ==
  /\ req[p].pc = "commit"
  /\ req[p].op \in {"updateUser", "deleteUser", "restoreUser", "adjustUserCredits",
                    "changeUserPassword", "toggleUserStatus"}
  /\ users' = [users EXCEPT ![req[p].uid] = req[p].pendRow]
  /\ Return(p, req[p], 200, AdminMessage(req[p]), "commit", req[p].tok)
  /\ UNCHANGED <<likes, otps, now, tokens>>

\* deleteUser up to the lookup.
DeleteUserFind(p, token, userId) ==
  /\ req[p].pc = "done"
  /\ LET r == [Blank EXCEPT !.op = "deleteUser", !.uid = userId, !.tok = token]
     IN IF userId \notin DOMAIN users \/ users[userId].deleted
          THEN RollbackAndThrow(p, r, AppError("User not found", 404), AdminError(r.op))
          ELSE /\ req' = [req EXCEPT ![p] = [r EXCEPT !.pc = "destroy", !.txn = "open"]]
               /\ last' = NoLast
  /\ UNCHANGED <<likes, users, otps, now, tokens>>

\* user.destroy({transaction}) of the paranoid model: deletedAt is set.
DeleteUserDestroy(p) ==
  /\ req[p].pc = "destroy"
  /\ ~UserLockedByOthers(p, req[p].uid)
  /\ req' = [req EXCEPT ![p].pc = "commit",
                        ![p].pendRow = [users[req[p].uid] EXCEPT !.deleted = TRUE]]
  /\ UNCHANGED <<likes, users, otps, now, tokens, last>>

\* restoreUser up to the lookup, made over soft-deleted rows too.
RestoreUserFind(p, token, userId) ==
  /\ req[p].pc = "done"
  /\ LET r == [Blank EXCEPT !.op = "restoreUser", !.uid = userId, !.tok = token]
     IN IF userId \notin DOMAIN users
          THEN RollbackAndThrow(p, r, AppError("User not found", 404), AdminError(r.op))
          ELSE IF ~users[userId].deleted
            THEN RollbackAndThrow(p, r, AppError("User is not deleted", 400),
                                  AdminError(r.op))
          ELSE /\ req' = [req EXCEPT ![p] = [r EXCEPT !.pc = "restore", !.txn = "open"]]
               /\ last' = NoLast
  /\ UNCHANGED <<likes, users, otps, now, tokens>>

\* user.restore({transaction}): deletedAt is cleared.
RestoreUserRestore(p) ==
  /\ req[p].pc = "restore"
  /\ ~UserLockedByOthers(p, req[p].uid)
  /\ req' = [req EXCEPT ![p].pc = "commit",
                        ![p].pendRow = [users[req[p].uid] EXCEPT !.deleted = FALSE]]
  /\ UNCHANGED <<likes, users, otps, now, tokens, last>>

\* bulkUpdateUsers: User.update(updateData, {where: {id: userIds}}) under
\* the transaction and the commit that follows it, taken together (the
\* rows stay locked in between).  The values are validated once; soft-
\* deleted rows are not matched.
bulkUpdateUsers(p, token, userIds, updateData) ==
  /\ req[p].pc = "done"
  /\ \A u \in userIds : ~UserLockedByOthers(p, u)
  /\ LET r == [Blank EXCEPT !.op = "bulkUpdateUsers", !.tok = token, !.data = updateData]
         matched == {u \in userIds \cap DOMAIN users : ~users[u].deleted}
     IN IF ~Validates(updateData)
          THEN /\ users' = users
               /\ Throw(p, r, CatchRollbackFirst(PlainError, "open", AdminError(r.op)),
                        "rollback")
          ELSE /\ users' = [u \in DOMAIN users |->
                              IF u \in matched THEN Updated(users[u], updateData)
                                               ELSE users[u]]
               /\ req' = [req EXCEPT ![p] = Blank]
               /\ last' = [Delivered(r, Ok(200, AdminMessage(r)), "commit", token)
                             EXCEPT !.count = Cardinality(matched)]
  /\ UNCHANGED <<likes, otps, now, tokens>>

(* ------------------- User.addCredits / deductCredits ------------------- *)
\* The caller loads the user; addCredits adds amount to the balance of the
\* instance, deductCredits throws when the balance of the instance is
\* below amount and subtracts it otherwise.
CreditsLoad(p, method, userId, amount) ==
  /\ req[p].pc = "done"
  /\ userId \in DOMAIN users
  /\ ~users[userId].deleted
  /\ LET r == [Blank EXCEPT !.op = method, !.uid = userId, !.amount = amount,
                            !.bal = users[userId].credits]
         credits == users[userId].credits
     IN IF method = "deductCredits" /\ credits < amount
          THEN Throw(p, r, PlainError, "none")
          ELSE /\ req' = [req EXCEPT ![p] = [r EXCEPT !.pc = "save",
                            !.data = [credits |-> IF method = "addCredits"
                                                    THEN credits + amount
                                                    ELSE credits - amount]]]
               /\ last' = NoLast
  /\ UNCHANGED <<likes, users, otps, now, tokens>>

\* this.save(): the changed column is validated and written, committed by
\* itself.
CreditsSave(p) ==
  /\ req[p].pc = "save"
  /\ ~UserLockedByOthers(p, req[p].uid)
  /\ IF ~Validates(req[p].data)
       THEN /\ users' = users
            /\ Throw(p, req[p], PlainError, "none")
       ELSE /\ users' = [users EXCEPT ![req[p].uid] = Updated(@, req[p].data)]
            /\ Return(p, req[p], 200, "saved", "none", NoToken)
  /\ UNCHANGED <<likes, otps, now, tokens>>

(* --------------------------------- likes ------------------------------- *)
\* The rows of the content table; it is not written by the workflows here.
ContentIds == {1, 2}

\* Like.findOne({where: {userId, contentId}}) of the paranoid model: a
\* row that is not soft-deleted, 0 when there is none.
FindLike(userId, contentId) ==
  IF \E i \in DOMAIN likes :
        likes[i].userId = userId /\ likes[i].contentId = contentId /\ ~likes[i].deleted
    THEN CHOOSE i \in DOMAIN likes :
        likes[i].userId = userId /\ likes[i].contentId = contentId /\ ~likes[i].deleted
    ELSE 0

\* likes_user_content_unique_idx, unique on (user_id, content_id): any row
\* of the pair, soft-deleted or not, holds the key.
LikeKeyTaken(userId, contentId) ==
  \E i \in DOMAIN likes : likes[i].userId = userId /\ likes[i].contentId = contentId

\* Another request has written a like of the pair under a transaction
\* that has not finished.
LikeLockedByOthers(p, userId, contentId) ==
  \E q \in Procs \ {p} :
     /\ req[q].op = "toggleLike"
     /\ req[q].pc = "commit"
     /\ req[q].uid = userId
     /\ req[q].content = contentId

\* toggleLike up to its lookups: the content, the user, the like.
ToggleLikeFind(p, userId, contentId) ==
  /\ req[p].pc = "done"
  /\ LET r == [Blank EXCEPT !.op = "toggleLike", !.uid = userId, !.content = contentId]
         wrapped == AppError("Like toggle error", 500)
     IN IF contentId \notin ContentIds
          THEN RollbackAndThrow(p, r, AppError("Content not found", 404), wrapped)
          ELSE IF userId \notin DOMAIN users \/ users[userId].deleted
            THEN RollbackAndThrow(p, r, AppError("User not found", 404), wrapped)
          ELSE /\ req' = [req EXCEPT ![p] = [r EXCEPT !.pc = "toggle", !.txn = "open",
                                                     !.like = FindLike(userId, contentId)]]
               /\ last' = NoLast
  /\ UNCHANGED <<likes, users, otps, now, tokens>>

\* existingLike.destroy({transaction}) when a like was found, otherwise
\* Like.create({userId, contentId}, {transaction}); the insert of a pair
\* the unique index holds throws into the catch block.
ToggleLikeWrite(p) ==
  /\ req[p].pc = "toggle"
  /\ ~LikeLockedByOthers(p, req[p].uid, req[p].content)
  /\ IF req[p].like = 0 /\ LikeKeyTaken(req[p].uid, req[p].content)
       THEN Throw(p, req[p],
                  CatchRollbackFirst(PlainError, "open", AppError("Like toggle error", 500)),
                  "rollback")
       ELSE /\ req' = [req EXCEPT ![p].pc = "commit"]
            /\ last' = last
  /\ UNCHANGED <<likes, users, otps, now, tokens>>

\* transaction.commit() of toggleLike: the row found is soft-deleted, or
\* the new row is there; isLiked is told by the message.
ToggleLikeCommit(p) ==
  /\ req[p].pc = "commit"
  /\ req[p].op = "toggleLike"
  /\ IF req[p].like # 0
       THEN /\ likes' = [likes EXCEPT ![req[p].like].deleted = TRUE]
            /\ Return(p, req[p], 200, "Content unliked successfully", "commit", NoToken)
       ELSE /\ likes' = Append(likes, [userId |-> req[p].uid,
                                       contentId |-> req[p].content, deleted |-> FALSE])
            /\ Return(p, req[p], 200, "Content liked successfully", "commit", NoToken)
  /\ UNCHANGED <<users, otps, now, tokens>>

(* ---------------------------- specifications --------------------------- *)
InitOtp ==
  /\ users = SeedUsers
  /\ otps = <<>>
  /\ now = 0
  /\ req = [p \in Procs |-> Blank]
  /\ tokens = {}
  /\ last = NoLast
  /\ likes = <<>>

\* Issuance only, for one user: enough rows for the rate limit.  The rate
\* limit check is never held back here; only the insert is bounded.
IssueEmailInputs == {<<"a", "b">>, <<"A", "_">>, <<"z", "z">>}
IssueUserIdInputs == {0, 1}

NextIssue ==
  \/ Tick
  \/ \E p \in Procs, e \in IssueEmailInputs : ForgotPasswordFind(p, e)
  \/ \E p \in Procs : ForgotPasswordCount(p, MaxIssued + 2)
  \/ \E p \in Procs, u \in IssueUserIdInputs : RequestEmailVerificationFind(p, u)
  \/ \E p \in Procs : RequestEmailVerificationCount(p, MaxIssued + 2)
  \/ \E p \in Procs : CreateOTPInvalidate(p)
  \/ \E p \in Procs, c \in Codes, ok \in BOOLEAN : CreateOTPInsert(p, c, ok, MaxIssued)
  \/ cleanupExpiredOTPs

SpecIssue == InitOtp /\ [][NextIssue]_vars

\* Inputs of the consumption specifications: both users are issued OTPs,
\* the first one consumes them.
EmailInputs == {<<"A", "B">>, <<"c", "_">>, <<"z", "z">>}
VerifyEmailInputs == {<<"A", "B">>, <<"z", "z">>}
UserIdInputs == {0, 1}
ForgedToken ==
  [sub |-> 1, purpose |-> "password_reset", iat |-> 7, id |-> 1, role |-> "admin",
   type |-> "ACCESS", exp |-> 7 + JWT_EXPIRY_MINUTES * 60]

\* Issuance and consumption.
NextOtp ==
  \/ Tick
  \/ \E p \in Procs, e \in EmailInputs : ForgotPasswordFind(p, e)
  \/ \E p \in Procs : ForgotPasswordCount(p, MaxOtps)
  \/ \E p \in Procs, u \in UserIdInputs : RequestEmailVerificationFind(p, u)
  \/ \E p \in Procs : RequestEmailVerificationCount(p, MaxOtps)
  \/ \E p \in Procs : CreateOTPInvalidate(p)
  \/ \E p \in Procs, c \in Codes, ok \in BOOLEAN : CreateOTPInsert(p, c, ok, MaxOtps)
  \/ cleanupExpiredOTPs
  \/ \E p \in Procs, e \in VerifyEmailInputs, c \in CodeInputs : VerifyOtpFindUser(p, e, c)
  \/ \E p \in Procs : VerifyOtpFindOtp(p)
  \/ \E p \in Procs : VerifyOtpMark(p)
  \/ \E p \in Procs : VerifyOtpCommit(p)
  \/ \E p \in Procs, u \in UserIdInputs, c \in CodeInputs : VerifyEmailFindUser(p, u, c)
  \/ \E p \in Procs : VerifyEmailFindOtp(p)
  \/ \E p \in Procs : VerifyEmailMarkOtp(p)
  \/ \E p \in Procs : VerifyEmailMarkUser(p)
  \/ \E p \in Procs : VerifyEmailCommit(p)
  \/ \E p \in Procs, c \in CodeInputs, pu \in Purposes :
        VerifyAndConsumeFind(p, 1, c, pu)
  \/ \E p \in Procs : markAsUsed(p)

SpecOtp == InitOtp /\ [][NextOtp]_vars

\* Issuance, consumption by the workflows, and reset-password.
NextReset ==
  \/ Tick
  \/ \E p \in Procs, e \in EmailInputs : ForgotPasswordFind(p, e)
  \/ \E p \in Procs : ForgotPasswordCount(p, MaxOtps)
  \/ \E p \in Procs, u \in UserIdInputs : RequestEmailVerificationFind(p, u)
  \/ \E p \in Procs : RequestEmailVerificationCount(p, MaxOtps)
  \/ \E p \in Procs : CreateOTPInvalidate(p)
  \/ \E p \in Procs, c \in Codes, ok \in BOOLEAN : CreateOTPInsert(p, c, ok, MaxOtps)
  \/ cleanupExpiredOTPs
  \/ \E p \in Procs, e \in VerifyEmailInputs, c \in CodeInputs : VerifyOtpFindUser(p, e, c)
  \/ \E p \in Procs : VerifyOtpFindOtp(p)
  \/ \E p \in Procs : VerifyOtpMark(p)
  \/ \E p \in Procs : VerifyOtpCommit(p)
  \/ \E p \in Procs, u \in UserIdInputs, c \in CodeInputs : VerifyEmailFindUser(p, u, c)
  \/ \E p \in Procs : VerifyEmailFindOtp(p)
  \/ \E p \in Procs : VerifyEmailMarkOtp(p)
  \/ \E p \in Procs : VerifyEmailMarkUser(p)
  \/ \E p \in Procs : VerifyEmailCommit(p)
  \/ \E p \in Procs, t \in tokens \cup {ForgedToken}, pw \in PlainPasswords :
        ResetPasswordFind(p, t, pw)
  \/ \E p \in Procs : ResetPasswordUpdateUser(p)
  \/ \E p \in Procs : ResetPasswordUpdateOtps(p)
  \/ \E p \in Procs : ResetPasswordCommit(p)

SpecReset == InitOtp /\ [][NextReset]_vars

\* Accounts: registration, login, federated login and the admin operations
\* that create users or change their email or status, from an empty table.
InitUser ==
  /\ users = <<>>
  /\ otps = <<>>
  /\ now = 0
  /\ req = [p \in Procs |-> Blank]
  /\ tokens = {}
  /\ last = NoLast
  /\ likes = <<>>

UserEmailInputs == {<<"a", "b">>, <<"A", "b">>}
NewPasswordInputs == {<<"p">>}
UpdateInputs == {[email |-> <<"A", "b">>], [status |-> "blocked"]}

NextUser ==
  \/ \E p \in Procs, e \in UserEmailInputs, pw \in NewPasswordInputs : RegisterFind(p, e, pw)
  \/ \E p \in Procs : RegisterCreate(p, MaxUsers)
  \/ \E p \in Procs : RegisterCommit(p)
  \/ \E p \in Procs, e \in UserEmailInputs, pw \in PlainPasswords : login(p, e, pw)
  \/ \E p \in Procs, pr \in {"google", "facebook"}, e \in UserEmailInputs :
        FederatedFind(p, pr, e)
  \/ \E p \in Procs : FederatedCreate(p, MaxUsers)
  \/ \E p \in Procs, e \in UserEmailInputs, pw \in NewPasswordInputs :
        CreateUserFind(p, e, pw, "active")
  \/ \E p \in Procs : CreateUserCreate(p, MaxUsers)
  \/ \E p \in Procs : CreateUserCommit(p)
  \/ \E p \in Procs, u \in 1..MaxUsers, d \in UpdateInputs :
        UpdateUserFind(p, NoToken, u, d)
  \/ \E p \in Procs : UpdateUserUpdate(p)
  \/ \E p \in Procs : AdminCommit(p)
  \/ \E p \in Procs, u \in 1..MaxUsers : DeleteUserFind(p, NoToken, u)
  \/ \E p \in Procs : DeleteUserDestroy(p)

SpecUser == InitUser /\ [][NextUser]_vars

\* Account recovery of one user: forgot-password, verify-otp and
\* reset-password, with several reset codes issued one after another.
NextRecover ==
  \/ \E p \in Procs : ForgotPasswordFind(p, <<"a", "b">>)
  \/ \E p \in Procs : ForgotPasswordCount(p, MaxRecoverOtps)
  \/ \E p \in Procs : CreateOTPInvalidate(p)
  \/ \E p \in Procs, c \in Codes : CreateOTPInsert(p, c, TRUE, MaxRecoverOtps)
  \/ \E p \in Procs, c \in CodeInputs : VerifyOtpFindUser(p, <<"A", "B">>, c)
  \/ \E p \in Procs : VerifyOtpFindOtp(p)
  \/ \E p \in Procs : VerifyOtpMark(p)
  \/ \E p \in Procs : VerifyOtpCommit(p)
  \/ \E p \in Procs, t \in tokens \cup {ForgedToken}, pw \in PlainPasswords :
        ResetPasswordFind(p, t, pw)
  \/ \E p \in Procs : ResetPasswordUpdateUser(p)
  \/ \E p \in Procs : ResetPasswordUpdateOtps(p)
  \/ \E p \in Procs : ResetPasswordCommit(p)

SpecRecover == InitOtp /\ [][NextRecover]_vars

\* Sessions and passwords of the registered users: login, the status an
\* admin gives a user, the token checks, and the password changes by reset
\* token and by current password.
SessionEmailInputs == {<<"A", "B">>, <<"z", "z">>}
SessionStatusInputs == {"active", "inactive", "blocked"}

TokenInputs == tokens \cup {NoToken, ForgedToken}

NextSession ==
  \/ \E p \in Procs, e \in SessionEmailInputs, pw \in PlainPasswords : login(p, e, pw)
  \/ \E p \in Procs, st \in SessionStatusInputs : UpdateUserFind(p, NoToken, 1, [status |-> st])
  \/ \E p \in Procs : UpdateUserUpdate(p)
  \/ \E p \in Procs : AdminCommit(p)
  \/ \E p \in Procs, t \in TokenInputs : refreshToken(p, t)
  \/ \E p \in Procs, t \in TokenInputs : verifyAuthToken(p, t)
  \/ \E p \in Procs, t \in TokenInputs : logout(p, t)
  \/ \E p \in Procs, t \in TokenInputs : logoutAll(p, t)
  \/ \E p \in Procs : ForgotPasswordFind(p, <<"a", "b">>)
  \/ \E p \in Procs : ForgotPasswordCount(p, MaxOtps)
  \/ \E p \in Procs : CreateOTPInvalidate(p)
  \/ \E p \in Procs, c \in Codes : CreateOTPInsert(p, c, TRUE, MaxOtps)
  \/ \E p \in Procs, c \in Codes : VerifyOtpFindUser(p, <<"a", "b">>, c)
  \/ \E p \in Procs : VerifyOtpFindOtp(p)
  \/ \E p \in Procs : VerifyOtpMark(p)
  \/ \E p \in Procs : VerifyOtpCommit(p)
  \/ \E p \in Procs, t \in TokenInputs, pw \in PlainPasswords : ResetPasswordFind(p, t, pw)
  \/ \E p \in Procs : ResetPasswordUpdateUser(p)
  \/ \E p \in Procs : ResetPasswordUpdateOtps(p)
  \/ \E p \in Procs : ResetPasswordCommit(p)
  \/ \E p \in Procs, t \in TokenInputs, cur \in PlainPasswords, pw \in PlainPasswords :
        ChangePasswordFind(p, t, cur, pw)
  \/ \E p \in Procs : ChangePasswordUpdate(p)
  \/ \E p \in Procs : ChangePasswordCommit(p)

SpecSession == InitOtp /\ [][NextSession]_vars

\* Administration of the registered users: every admin workflow on one
\* user, with the tokens that logins issue, and login by password.
AdminUpdateInputs ==
  {[password |-> <<"q">>], [referralCode |-> <<"X">>], [role |-> "admin"]}
AdminStatusInputs == {"blocked", "active"}

\* The tokens an admin request comes with: none, or an access token that
\* a login issued.
AdminTokenInputs == {t \in tokens : t.type = "ACCESS"} \cup {NoToken}

NextAdmin ==
  \/ \E p \in Procs, pw \in PlainPasswords : login(p, <<"a", "b">>, pw)
  \/ \E p \in Procs, t \in AdminTokenInputs, d \in AdminUpdateInputs : UpdateUserFind(p, t, 1, d)
  \/ \E p \in Procs, t \in AdminTokenInputs :
        ChangeUserPasswordFind(p, t, 1, <<"q">>)
  \/ \E p \in Procs, t \in AdminTokenInputs, st \in AdminStatusInputs :
        ToggleUserStatusFind(p, t, 1, st)
  \/ \E p \in Procs : UpdateUserUpdate(p)
  \/ \E p \in Procs, t \in AdminTokenInputs : DeleteUserFind(p, t, 1)
  \/ \E p \in Procs : DeleteUserDestroy(p)
  \/ \E p \in Procs, t \in AdminTokenInputs : RestoreUserFind(p, t, 1)
  \/ \E p \in Procs : RestoreUserRestore(p)
  \/ \E p \in Procs : AdminCommit(p)

SpecAdmin == InitOtp /\ [][NextAdmin]_vars

\* Credits of one registered user and of a user created meanwhile: every
\* operation that writes a balance.  Additions are held back at MaxCredits.
InitCredits ==
  /\ users = << SeedUsers[1] >>
  /\ otps = <<>>
  /\ now = 0
  /\ req = [p \in Procs |-> Blank]
  /\ tokens = {}
  /\ last = NoLast
  /\ likes = <<>>

CreditAmounts == {40, -60}
DeductAmounts == {40, 60}
CreditUpdateInputs == {[credits |-> 20], [credits |-> -5]}
CreditOperations == {"add", "deduct", "set"}
CreditMethods == {"addCredits", "deductCredits"}

\* No amount, added or taken off a negative one, brings the balance of u
\* over MaxCredits.
BelowCap(u) ==
  u \in DOMAIN users =>
    \A a \in CreditAmounts : /\ users[u].credits + a <= MaxCredits
                             /\ users[u].credits - a <= MaxCredits

NextCredits ==
  \/ \E p \in Procs : RegisterFind(p, <<"c", "d">>, <<"p">>)
  \/ \E p \in Procs : RegisterCreate(p, MaxCreditUsers)
  \/ \E p \in Procs : RegisterCommit(p)
  \/ \E p \in Procs : CreateUserFind(p, <<"c", "d">>, <<"p">>, "active")
  \/ \E p \in Procs : CreateUserCreate(p, MaxCreditUsers)
  \/ \E p \in Procs : CreateUserCommit(p)
  \/ \E p \in Procs, a \in CreditAmounts, o \in CreditOperations :
        BelowCap(1) /\ AdjustUserCreditsFind(p, NoToken, 1, a, o)
  \/ \E p \in Procs, d \in CreditUpdateInputs : UpdateUserFind(p, NoToken, 1, d)
  \/ \E p \in Procs : UpdateUserUpdate(p)
  \/ \E p \in Procs : AdminCommit(p)
  \/ \E p \in Procs, d \in CreditUpdateInputs :
        bulkUpdateUsers(p, NoToken, {1, 2}, d)
  \/ \E p \in Procs, a \in CreditAmounts :
        BelowCap(1) /\ CreditsLoad(p, "addCredits", 1, a)
  \/ \E p \in Procs, a \in DeductAmounts : CreditsLoad(p, "deductCredits", 1, a)
  \/ \E p \in Procs : CreditsSave(p)

SpecCredits == InitCredits /\ [][NextCredits]_vars

\* Likes of the registered users: toggleLike, the calls on one pair of
\* user and content made one after another, calls on different pairs
\* side by side.
LikeUserInputs == {1, 2}
LikeContentInputs == {1, 2, 9}

OneAfterAnother(userId, contentId) ==
  \A q \in Procs :
     req[q].pc # "done" => req[q].uid # userId \/ req[q].content # contentId

NextLikes ==
  \/ \E p \in Procs, u \in LikeUserInputs, c \in LikeContentInputs :
        OneAfterAnother(u, c) /\ ToggleLikeFind(p, u, c)
  \/ \E p \in Procs : ToggleLikeWrite(p)
  \/ \E p \in Procs : ToggleLikeCommit(p)

SpecLikes == InitOtp /\ [][NextLikes]_vars

(* ------------------------------- claims -------------------------------- *)
\* The purpose a verification workflow looks for.
ExpectedPurpose(r) ==
  CASE r.op = "verifyOtp" -> "password_reset"
    [] r.op = "verifyEmail" -> "email_verification"
    [] OTHER -> r.purpose

Consumers == {"verifyOtp", "verifyEmail", "verifyAndConsumeOTP"}

\* C1: of the consumption requests that race for one pending OTP, exactly
\* one succeeds: no OTP is ever consumed with success by two requests, so
\* at most one reset token is issued per OTP.
C1_ExactlyOneConsumer ==
  \A i \in DOMAIN otps : otps[i].wins <= 1

\* C2: in every reachable state each (user, purpose) pair has at most one
\* pending OTP, i.e. at most one row with used = false and expiresAt > now.
C2_AtMostOnePending ==
  \A u \in DOMAIN users, pu \in Purposes :
     Cardinality({i \in DOMAIN otps :
        /\ otps[i].userId = u
        /\ otps[i].purpose = pu
        /\ otps[i].used = FALSE
        /\ otps[i].expiresAt > now}) <= 1

C4_AcceptOnlyMatching ==
  [][ \A p \in Procs :
        /\ (/\ req'[p].op \in Consumers
            /\ req[p].otp = 0
            /\ req'[p].otp # 0)
           => /\ req'[p].otp \in DOMAIN otps
              /\ otps[req'[p].otp].userId = req'[p].uid
              /\ otps[req'[p].otp].code = req'[p].code
              /\ otps[req'[p].otp].purpose = ExpectedPurpose(req'[p])
              /\ otps[req'[p].otp].used = FALSE
              /\ otps[req'[p].otp].expiresAt > now
        /\ (/\ req[p].op \in Consumers
            /\ req[p].pc = "findOtp"
            /\ req'[p].pc = "done")
           => otps' = otps ]_vars

\* verify-otp of user 1 was refused while an unused, unexpired OTP with the
\* presented code exists for another user.
C4_Witness ==
  /\ last.op = "verifyOtp"
  /\ last.uid = 1
  /\ last.res.status # 200
  /\ \E i \in DOMAIN otps :
       /\ otps[i].userId # last.uid
       /\ otps[i].code = last.code
       /\ otps[i].purpose = "password_reset"
       /\ ~otps[i].used
       /\ otps[i].expiresAt > now

\* C5: issuance is all-or-nothing: when the workflow fails after the
\* invalidation step (the insert fails), every OTP it invalidated is still
\* unused.
C5_IssueAllOrNothing ==
  [][ \A p \in Procs :
        (/\ req[p].pc = "insert"
         /\ req'[p].pc = "done"
         /\ last'.fault)
        => \A i \in req[p].inv : otps'[i].used = FALSE ]_vars

\* C6: a forgot-password request that finds 3 password_reset OTPs of the
\* user created within the trailing 15 minutes returns the generic success
\* message, creates no OTP row and invalidates none.
C6_RateLimitNoOp ==
  [][ \A p \in Procs :
        (/\ req[p].op = "forgotPassword"
         /\ req[p].pc = "count"
         /\ req'[p] # req[p]
         /\ Cardinality({i \in DOMAIN otps :
               /\ otps[i].userId = req[p].uid
               /\ otps[i].purpose = "password_reset"
               /\ otps[i].createdAt > now - 15 * 60 * 1000}) >= 3)
        => /\ req'[p].pc = "done"
           /\ last'.res = [status |-> 200,
                           message |-> "If the user exists, a password reset email has been sent"]
           /\ otps' = otps ]_vars

\* The fourth forgot-password of user 1 has been answered: three
\* password_reset OTPs of the user are within the window and the request
\* created none.
C6_Witness ==
  /\ last.op = "forgotPassword"
  /\ last.uid = 1
  /\ last.otp = 0
  /\ last.res.status = 200
  /\ Cardinality({i \in DOMAIN otps :
        /\ otps[i].userId = 1
        /\ otps[i].purpose = "password_reset"
        /\ otps[i].createdAt > now - 15 * 60 * 1000}) = 3

\* C7: forgot-password is response-uniform: whether the email is unknown,
\* belongs to a user, or belongs to a user at the rate limit, the response
\* delivered is the same status and body.
C7_UniformResponse ==
  (last.op = "forgotPassword" /\ ~last.fault)
  => last.res = [status |-> 200,
                 message |-> "If the user exists, a password reset email has been sent"]

\* forgot-password for an email no user has was answered.
C7_Witness ==
  /\ last.op = "forgotPassword"
  /\ last.uid = 0
  /\ last.res.status = 200

\* This step delivers the response of a request of workflow opname.
Delivery(opname) ==
  /\ last'.op = opname
  /\ \/ last' # last
     \/ \E p \in Procs : req[p].op = opname /\ req[p].pc # "done" /\ req'[p].pc = "done"

\* C8: a register whose email equals, ignoring case, the email of a row
\* that an earlier register created (credits 50, a hashed password; the row
\* soft-deleted or not, and also when it was committed by a concurrent
\* registration) fails with EMAIL EXISTS, status 400, and leaves the table
\* as it was.
C8_ReRegisterFails ==
  [][ (/\ Delivery("register")
       /\ \E u \in DOMAIN users :
            /\ users[u].credits = 50
            /\ users[u].password # <<"bcrypt", "uuid">>
            /\ toLowerCase(users[u].email) = toLowerCase(last'.email))
      => /\ last'.res = [status |-> 400, message |-> "EMAIL EXISTS"]
         /\ users' = users ]_vars

\* C9: no two user rows that are not deleted have emails that are equal
\* ignoring case.
C9_NoCaseDuplicates ==
  \A i, j \in DOMAIN users :
     (i # j /\ ~users[i].deleted /\ ~users[j].deleted)
     => toLowerCase(users[i].email) # toLowerCase(users[j].email)

\* The user, if any, that is not deleted and whose stored email is the
\* lower-cased email of the login and whose password is the one presented.
C10_Matching(email, pw) ==
  {u \in DOMAIN users :
     /\ ~users[u].deleted
     /\ users[u].email = toLowerCase(email)
     /\ users[u].password = <<"bcrypt">> \o pw}

\* A registration that succeeds leaves its user with credits = 50 and
\* emailVerified = false.
C10_FreshUser ==
  (Delivery("register") /\ last'.res.status = 201)
  => /\ last'.uid \in DOMAIN users' \ DOMAIN users
     /\ users'[last'.uid].credits = 50
     /\ users'[last'.uid].emailVerified = FALSE

\* C10 as stated: login returns tokens exactly when the lower-cased email
\* belongs to an existing user and the password matches, every other login
\* fails with INVALID_CREDENTIALS (401), and a fresh user has credits = 50
\* and emailVerified = false.
C10_LoginExactly ==
  [][ /\ Delivery("login")
         => /\ (last'.res.status = 200) <=> (C10_Matching(last'.email, last'.pw) # {})
            /\ last'.res.status # 200
               => last'.res = [status |-> 401, message |-> "INVALID_CREDENTIALS"]
      /\ C10_FreshUser ]_vars

\* C10 amended: login returns tokens exactly when the lower-cased email
\* belongs to an existing user that is not blocked and the password
\* matches; an unknown email and a wrong password fail with the same
\* INVALID_CREDENTIALS (401); a fresh user has credits = 50 and
\* emailVerified = false.
C10_LoginExactlyUnblocked ==
  [][ /\ Delivery("login")
         => /\ (last'.res.status = 200)
               <=> (\E u \in C10_Matching(last'.email, last'.pw) : users[u].status # "blocked")
            /\ C10_Matching(last'.email, last'.pw) = {}
               => last'.res = [status |-> 401, message |-> "INVALID_CREDENTIALS"]
      /\ C10_FreshUser ]_vars

\* A login with the stored (lower-cased) email in another case and the
\* right password has been given tokens.
C10_Witness ==
  /\ last.op = "login"
  /\ last.res.status = 200
  /\ last.email # toLowerCase(last.email)
  /\ last.uid \in C10_Matching(last.email, last.pw)

\* C11: a login with the right password for a user whose status is blocked
\* fails with ACCOUNT_BLOCKED (403), not with the INVALID_CREDENTIALS (401)
\* of wrong credentials, and a login with the right password for a user
\* whose status is inactive is given tokens.
C11_BlockedLogin ==
  [][ Delivery("login")
      => \A u \in C10_Matching(last'.email, last'.pw) :
           /\ users[u].status = "blocked"
              => last'.res = [status |-> 403, message |-> "ACCOUNT_BLOCKED"]
           /\ users[u].status = "inactive" => last'.res.status = 200 ]_vars

\* C12: a verify-otp that does not return a reset token (unknown email, no
\* OTP with the code, expired OTP, used OTP) is answered INVALID_OTP with
\* status 400, and changes no OTP row.
C12_InvalidOtpDelivered ==
  [][ (Delivery("verifyOtp") /\ last'.res.status # 200)
      => /\ last'.res = [status |-> 400, message |-> "INVALID_OTP"]
         /\ otps' = otps ]_vars

\* C13: a token is accepted only by the operation it was signed for:
\* reset-password goes on only with a token whose purpose is
\* password_reset, refresh-token succeeds only with a token of type
\* REFRESH, and verify-token and the routes behind the authentication
\* middleware (logout-all, change-password) only with one of type ACCESS.
C13_TokenTypeBound ==
  [][ /\ \A p \in Procs :
           (req[p].pc = "done" /\ req'[p].op = "resetPassword" /\ req'[p].txn = "open")
           => req'[p].tok.purpose = "password_reset"
      /\ (Delivery("refreshToken") /\ last'.res.status = 200)
         => last'.tok.type = "REFRESH"
      /\ (Delivery("verifyAuthToken") /\ last'.res.status = 200)
         => last'.tok.type = "ACCESS"
      /\ (Delivery("logoutAll") /\ last'.res.status = 200)
         => last'.tok.type = "ACCESS"
      /\ \A p \in Procs :
           (req[p].pc = "done" /\ req'[p].op = "changePassword" /\ req'[p].txn = "open")
           => req'[p].tok.type = "ACCESS" ]_vars

\* This step is a request that is answered by its first step, and the
\* request is of workflow opname.
AnsweredAtOnce(opname) ==
  /\ last'.op = opname
  /\ last' # last
  /\ req' = req

\* The user a password request is about exists, and pw is its password.
C14_IsPasswordOf(uid, pw) ==
  /\ uid \in DOMAIN users
  /\ ~users[uid].deleted
  /\ users[uid].password = <<"bcrypt">> \o pw

\* C14: reset-password with a good reset token and change-password with
\* the right current password are answered SAME_PASSWORD (400) when the new
\* password is the current one; change-password with a wrong current
\* password is answered INVALID_PASSWORD (400); none of these changes the
\* stored hash or an OTP row.
C14_PasswordRejections ==
  [][ /\ (/\ AnsweredAtOnce("resetPassword")
          /\ last'.tok \in tokens
          /\ now \div 1000 < last'.tok.exp
          /\ last'.tok.purpose = "password_reset"
          /\ C14_IsPasswordOf(last'.uid, last'.pw))
         => /\ last'.res = [status |-> 400, message |-> "SAME_PASSWORD"]
            /\ users' = users /\ otps' = otps
      /\ (/\ AnsweredAtOnce("changePassword")
          /\ last'.tok \in tokens
          /\ last'.tok.type = "ACCESS"
          /\ C14_IsPasswordOf(last'.uid, last'.cur)
          /\ last'.pw = last'.cur)
         => /\ last'.res = [status |-> 400, message |-> "SAME_PASSWORD"]
            /\ users' = users /\ otps' = otps
      /\ (/\ AnsweredAtOnce("changePassword")
          /\ last'.tok \in tokens
          /\ last'.tok.type = "ACCESS"
          /\ last'.uid \in DOMAIN users
          /\ ~users[last'.uid].deleted
          /\ ~C14_IsPasswordOf(last'.uid, last'.cur))
         => /\ last'.res = [status |-> 400, message |-> "INVALID_PASSWORD"]
            /\ users' = users /\ otps' = otps ]_vars

\* A reset-password or change-password is answered 200 in this step.
C15_PasswordChanged ==
  \/ Delivery("resetPassword") /\ last'.res.status = 200
  \/ Delivery("changePassword") /\ last'.res.status = 200

\* The password p of a successful reset-password or change-password is the
\* one stored from then on, and a stored password changes in no other step.
C15_NewPasswordStored ==
  /\ C15_PasswordChanged => users'[last'.uid].password = <<"bcrypt">> \o last'.pw
  /\ \A u \in DOMAIN users :
       users'[u].password # users[u].password => (C15_PasswordChanged /\ last'.uid = u)

\* C15 as stated: after a successful reset-password or change-password with
\* p (the stored password is then no longer the one the user registered
\* with), a login with the stored password p succeeds and a login with any
\* other password, the old q among them, fails with INVALID_CREDENTIALS.
C15_LoginFollowsPassword ==
  [][ /\ C15_NewPasswordStored
      /\ Delivery("login")
         => \A u \in DOMAIN users :
              (~users[u].deleted /\ users[u].email = toLowerCase(last'.email)
               /\ users[u].password # SeedUsers[u].password)
              => IF users[u].password = <<"bcrypt">> \o last'.pw
                   THEN last'.res.status = 200
                   ELSE last'.res = [status |-> 401, message |-> "INVALID_CREDENTIALS"] ]_vars

\* C15 amended: for a user whose status is not blocked, a login with the
\* stored password succeeds and a login with any other password fails with
\* INVALID_CREDENTIALS, whatever reset or change stored the password.
C15_LoginFollowsPasswordUnblocked ==
  [][ /\ C15_NewPasswordStored
      /\ Delivery("login")
         => \A u \in DOMAIN users :
              (~users[u].deleted /\ users[u].email = toLowerCase(last'.email)
               /\ users[u].status # "blocked")
              => IF users[u].password = <<"bcrypt">> \o last'.pw
                   THEN last'.res.status = 200
                   ELSE last'.res = [status |-> 401, message |-> "INVALID_CREDENTIALS"] ]_vars

\* The password of user 1 was changed from p to q, and a login with the old
\* password p has been refused.
C15_Witness ==
  /\ last.op = "login"
  /\ last.uid = 1
  /\ last.pw = <<"p">>
  /\ last.res = [status |-> 401, message |-> "INVALID_CREDENTIALS"]
  /\ users[1].status = "active"
  /\ users[1].password = <<"bcrypt", "q">>

\* The password_reset OTPs of user uid in table rows.
C16_ResetOtps(rows, uid) ==
  {i \in DOMAIN rows : rows[i].userId = uid /\ rows[i].purpose = "password_reset"}

\* A reset-password that fails changes neither the users nor the OTPs.
C16_FailedResetChangesNothing ==
  (Delivery("resetPassword") /\ last'.res.status # 200)
  => (users' = users /\ otps' = otps)

\* C16 as stated: when a reset-password succeeds, every password_reset OTP
\* of the user has used = true in the state it commits, and a reset that
\* fails changes neither the password nor an OTP.
C16_ResetLeavesNoPending ==
  [][ /\ (Delivery("resetPassword") /\ last'.res.status = 200)
         => \A i \in C16_ResetOtps(otps', last'.uid) : otps'[i].used
      /\ C16_FailedResetChangesNothing ]_vars

\* C16 amended: the invalidating UPDATE of a reset covers every
\* password_reset OTP of the user that is committed and unused when it
\* runs; the commit stores the new password and marks exactly those rows in
\* one step; the password changes in no other step of a reset; a reset that
\* fails changes neither.
C16_ResetInvalidatesCommitted ==
  [][ /\ \A p \in Procs :
           (req[p].pc = "updateOtps" /\ req'[p].pc = "commit")
           => \A i \in C16_ResetOtps(otps, req[p].uid) :
                otps[i].used \/ i \in req'[p].lock
      /\ \A p \in Procs :
           (req[p].op = "resetPassword" /\ req[p].pc = "commit" /\ req'[p].pc = "done")
           => /\ last'.res.status = 200
              /\ users'[req[p].uid].password = <<"bcrypt">> \o req[p].newpw
              /\ \A i \in req[p].lock : otps'[i].used
      /\ \A p \in Procs :
           (req[p].op = "resetPassword" /\ ~(req[p].pc = "commit" /\ req'[p].pc = "done")
            /\ req'[p] # req[p])
           => (users' = users /\ otps' = otps)
      /\ C16_FailedResetChangesNothing ]_vars

\* A reset-password has succeeded and the newest OTP, which nobody
\* consumed, is used: the reset invalidated it.
C16_Witness ==
  /\ last.op = "resetPassword"
  /\ last.res.status = 200
  /\ \A p \in Procs : req[p].pc = "done"
  /\ Len(otps) >= 2
  /\ otps[Len(otps)].used
  /\ otps[Len(otps)].wins = 0

\* C17: verify-email is atomic.  Its commit sets emailVerified and marks the
\* matching email_verification OTP used in one step, and no other step
\* sets the flag; a code that matches no unused, unexpired OTP of the user
\* is answered INVALID_CODE (400) and changes neither the flag nor an OTP;
\* for a user already verified the call returns and consumes no OTP.
C17_VerifyEmailAtomic ==
  [][ /\ \A p \in Procs :
           (req[p].op = "verifyEmail" /\ req[p].pc = "commit" /\ req'[p].pc = "done")
           => /\ users'[req[p].uid].emailVerified
              /\ otps[req[p].otp].userId = req[p].uid
              /\ otps[req[p].otp].purpose = "email_verification"
              /\ otps[req[p].otp].code = req[p].code
              /\ otps'[req[p].otp].used
      /\ \A u \in DOMAIN users :
           (~users[u].emailVerified /\ users'[u].emailVerified)
           => \E p \in Procs :
                /\ req[p].op = "verifyEmail" /\ req[p].uid = u
                /\ req[p].pc = "commit" /\ req'[p].pc = "done"
      /\ \A p \in Procs :
           (req[p].op = "verifyEmail" /\ req[p].pc = "findOtp" /\ req'[p].pc = "done")
           => /\ last'.res = [status |-> 400, message |-> "INVALID_CODE"]
              /\ users' = users /\ otps' = otps
      /\ (/\ AnsweredAtOnce("verifyEmail")
          /\ last'.uid \in DOMAIN users
          /\ users[last'.uid].emailVerified)
         => (last'.res.status = 200 /\ users' = users /\ otps' = otps) ]_vars

\* C18: a request-email-verification that counts 3 email_verification OTPs
\* of the user created within the trailing 15 minutes is answered
\* RATE_LIMITED (429) and changes no OTP; one that counts fewer and
\* succeeds has added exactly one OTP for the user, unused, and pending
\* when the clock has not advanced since createOTP computed its expiry.
C18_RateLimitedDelivered ==
  [][ \A p \in Procs :
        /\ (/\ req[p].op = "requestEmailVerification"
            /\ req[p].pc = "count"
            /\ req'[p] # req[p]
            /\ Cardinality({i \in DOMAIN otps :
                  /\ otps[i].userId = req[p].uid
                  /\ otps[i].purpose = "email_verification"
                  /\ otps[i].createdAt > now - 15 * 60 * 1000}) >= 3)
           => /\ req'[p].pc = "done"
              /\ last'.res = [status |-> 429, message |-> "RATE_LIMITED"]
              /\ otps' = otps
        /\ (/\ req[p].op = "requestEmailVerification"
            /\ req[p].pc = "insert"
            /\ req'[p].pc = "done"
            /\ last'.res.status = 200)
           => /\ Len(otps') = Len(otps) + 1
              /\ otps'[Len(otps')].userId = req[p].uid
              /\ otps'[Len(otps')].purpose = "email_verification"
              /\ otps'[Len(otps')].used = FALSE
              /\ (req[p].exp = now + OTP_EXPIRY_MINUTES * 60 * 1000
                  => otps'[Len(otps')].expiresAt > now) ]_vars

\* The workflows that open a transaction.
C19_Transactional ==
  {"register", "forgotPassword", "verifyOtp", "resetPassword",
   "requestEmailVerification", "verifyEmail", "changePassword"}

\* C19: a transactional workflow answers a failure with the domain error
\* raised in it or with its own 500 error, never with the generic
\* "Internal Server Error" of an exception that escaped the workflow.
C19_ErrorsReachCaller ==
  (last.op \in C19_Transactional /\ last.res.status >= 400)
  => /\ last.res.message # "Internal Server Error"
     /\ last.txn # "twice"

\* A step of the sweep.
C20_Sweep ==
  /\ last'.op = "cleanupExpiredOTPs"
  /\ req' = req
  /\ now' = now
  /\ last' # last \/ otps' # otps

\* What the sweep does when cond(row) is the condition it sweeps unused
\* rows on: exactly these rows become used, every other row and field
\* is as before, the number returned is the number of rows changed, and no
\* row is left that a second sweep at the same instant would change.
C20_Sweeps(cond(_)) ==
  /\ DOMAIN otps' = DOMAIN otps
  /\ \A i \in DOMAIN otps :
       otps'[i] = IF ~otps[i].used /\ cond(otps[i])
                    THEN [otps[i] EXCEPT !.used = TRUE]
                    ELSE otps[i]
  /\ last'.count = Cardinality({i \in DOMAIN otps : otps'[i] # otps[i]})
  /\ {i \in DOMAIN otps' : ~otps'[i].used /\ cond(otps'[i])} = {}

\* Not pending by the clock: now < expiresAt is false.
C20_NotUnexpired(row) == ~(now < row.expiresAt)

\* Expired as the sweep and isExpired compare: expiresAt < now.
C20_PastExpiry(row) == row.expiresAt < now

C23_Protected == {"logout", "logoutAll", "changePassword"}

\* C23: a request to a protected auth route that carries no token, or a
\* token that does not verify against the server secret or has expired, is
\* answered 401, and its handler changes nothing.
C23_ProtectedNeedToken ==
  [][ \A op \in C23_Protected :
        ((Delivery(op) \/ AnsweredAtOnce(op)) /\ Auth(last'.tok) = NoToken)
        => /\ last'.res.status = 401
           /\ users' = users ]_vars

\* Only federated logins have written the users table and only federated
\* logins are running.
C24_OnlyFederated ==
  /\ \A u \in DOMAIN users :
       /\ users[u].emailVerified
       /\ users[u].password = Hash(<<"uuid">>)
       /\ ~users[u].deleted
       /\ users[u].email = toLowerCase(users[u].email)
  /\ \A q \in Procs : req[q].op \in {"idle", "google", "facebook"}

\* C24: every federated login whose provider call succeeded is answered
\* 200 with an access/refresh token pair of the one user row that holds
\* the provider email, whatever federated logins ran before it or run
\* beside it.
C24_FindOrCreate ==
  [][ \A pr \in {"google", "facebook"} :
        (Delivery(pr) /\ C24_OnlyFederated)
        => /\ last'.res.status = 200
           /\ Cardinality({u \in DOMAIN users' :
                             users'[u].email = toLowerCase(last'.email)}) = 1
           /\ last'.uid \in DOMAIN users'
           /\ users'[last'.uid].email = toLowerCase(last'.email)
           /\ {t \in tokens' : t.id = last'.uid /\ t.type = "ACCESS"} # {}
           /\ {t \in tokens' : t.id = last'.uid /\ t.type = "REFRESH"} # {} ]_vars

\* C28: when a workflow has returned or thrown, the transaction it opened
\* has been committed or rolled back ("commit", "rollback"; "none" when it
\* opened none): it is not left open, and neither commit nor rollback has
\* been called on it after it was finished ("twice").
C28_FinishedOnce == last.txn \in {"none", "commit", "rollback"}

\* The users a login with this email is about.
C29_UsersOf(email) ==
  {u \in DOMAIN users : ~users[u].deleted /\ users[u].email = toLowerCase(email)}

\* C29: while a user is blocked, a login or a federated login with the
\* user's email and a refresh-token with a refresh token of the user are
\* not answered 200, and so give the user no new tokens.
C29_BlockedGetsNoTokens ==
  [][ /\ \A op \in {"login", "google", "facebook"} :
           (/\ Delivery(op)
            /\ \E u \in C29_UsersOf(last'.email) : users[u].status = "blocked")
           => last'.res.status # 200
      /\ (/\ Delivery("refreshToken")
          /\ last'.uid \in DOMAIN users
          /\ users[last'.uid].status = "blocked")
         => last'.res.status # 200 ]_vars

\* A password_reset OTP of user uid that a verify-otp has consumed, issued
\* no later than the second iat (iat counts whole seconds).
C30_Consumed(uid, iat) ==
  \E i \in DOMAIN otps :
     /\ otps[i].userId = uid
     /\ otps[i].purpose = "password_reset"
     /\ otps[i].used
     /\ otps[i].wins >= 1
     /\ otps[i].createdAt \div 1000 <= iat

\* C30: reset-password goes on to change the password of u only with a
\* reset token that a verify-otp for u signed at most 15 minutes earlier,
\* after it consumed a password_reset OTP of u; a successful
\* reset-password was given such a token, and in the recovery workflows
\* nothing else changes a password.
C30_ResetNeedsOtp ==
  [][ /\ \A p \in Procs :
           (req[p].pc = "done" /\ req'[p].op = "resetPassword" /\ req'[p].pc = "updateUser")
           => /\ req'[p].tok \in tokens
              /\ req'[p].tok.purpose = "password_reset"
              /\ req'[p].tok.sub = req'[p].uid
              /\ now < (req'[p].tok.iat + 15 * 60) * 1000
              /\ C30_Consumed(req'[p].uid, req'[p].tok.iat)
      /\ (Delivery("resetPassword") /\ last'.res.status = 200)
         => /\ last'.tok \in tokens
            /\ last'.tok.sub = last'.uid
            /\ C30_Consumed(last'.uid, last'.tok.iat)
      /\ \A u \in DOMAIN users :
           (u \in DOMAIN users' /\ users'[u].password # users[u].password)
           => (Delivery("resetPassword") /\ last'.res.status = 200 /\ last'.uid = u) ]_vars

\* A reset-password has succeeded and the user's password is the new one.
C30_Witness ==
  /\ last.op = "resetPassword"
  /\ last.res.status = 200
  /\ last.tok.purpose = "password_reset"
  /\ users[last.uid].password = Hash(last.pw)
  /\ C30_Consumed(last.uid, last.tok.iat)


\* The workflows that set the password of a user that exists.
C26_Setters == {"changeUserPassword", "updateUser", "resetPassword", "changePassword"}

\* C26: when a workflow that sets the password of a user to p succeeds
\* (admin changeUserPassword, admin updateUser with a password, reset-
\* password, change-password), the stored password is one salted hash of
\* p: verifyPassword(p) is true of it, so a login with p passes the
\* password check.
C26_PasswordStored ==
  [][\A op \in C26_Setters :
       Delivery(op) /\ last'.res.status = 200 /\ last'.pw # <<>>
         => verifyPassword(users'[last'.uid].password, last'.pw)]_vars


\* C22: the id and the referralCode of a user are set once, when the row
\* is created; no later operation (password reset or change, email
\* verification, admin updateUser, toggleUserStatus, adjustUserCredits,
\* soft delete and restore) changes either of them.
C22_IdAndReferralCodeKept ==
  [][\A u \in DOMAIN users :
       /\ users'[u].id = users[u].id
       /\ users'[u].referralCode = users[u].referralCode]_vars


\* The workflows of the admin user-management handlers.
C25_AdminOps ==
  {"updateUser", "deleteUser", "restoreUser", "adjustUserCredits",
   "changeUserPassword", "toggleUserStatus", "bulkUpdateUsers", "createUser"}

\* C25: an admin user-management handler runs only for a request whose
\* token verifies and carries the role admin: every answer of such a
\* handler is to a request of that kind.
C25_AdminOnly ==
  [][\A op \in C25_AdminOps :
       Delivery(op) => /\ Auth(last'.tok) # NoToken
                       /\ last'.tok.role = "admin"]_vars


C27_Active(t, userId, contentId) ==
  Cardinality({i \in DOMAIN t :
     t[i].userId = userId /\ t[i].contentId = contentId /\ ~t[i].deleted})

\* C27: toggleLike alternates.  Of the calls on one user and one content
\* that exist, made one after another, every call succeeds; a call made
\* when the pair has no active like answers isLiked true and leaves one,
\* a call made when it has one answers isLiked false and leaves none (so
\* the n-th call answers true for odd n and false for even n, and like,
\* unlike, like again works); the pair never has two active like rows.
C27_Alternates ==
  [][Delivery("toggleLike") /\ last'.content \in ContentIds /\ last'.uid \in DOMAIN users
       => LET before == C27_Active(likes, last'.uid, last'.content)
              after == C27_Active(likes', last'.uid, last'.content)
          IN /\ last'.res.status = 200
             /\ before = 0 => /\ last'.res.message = "Content liked successfully"
                              /\ after = 1
             /\ before = 1 => /\ last'.res.message = "Content unliked successfully"
                              /\ after = 0
             /\ after <= 1]_vars

====
